---- MODULE Spec2Model ----
(***************************************************************************)
(* TraderJoe swap routing and execution of the Transaction-Service:        *)
(* Pool Registry Client (traderjoe_factory.py), Path Finder and Fee-Tier   *)
(* Optimizer (traderjoe/utils.py, path_builder.py), Router Facade          *)
(* (traderjoe/router.py), Swap Executor (swap_executor.py, base.py) and    *)
(* the swap command handler of the service layer (handlers.py).            *)
(*                                                                         *)
(* Python None is the empty tuple <<>>, so that the truth test             *)
(* `if best_pair:` of the source is `x # None` here.                       *)
(***************************************************************************)
EXTENDS Integers, Sequences, FiniteSets, TLC

\* ------------------------------------------------------------------------
\* Bounds of the model
\* ------------------------------------------------------------------------
\* pools (listed descriptors) the factory holds over all token pairs, when
\* the Path Finder and the optimizer run alone
MaxPools == 3
\* the same, when the whole router call runs
MaxSwapPools == 2
\* greatest nonce of a previous transaction
MaxNonce == 1
\* greatest amount_in of the requests that differ in their amounts
MaxAmount == 100

\* ------------------------------------------------------------------------
\* Values
\* ------------------------------------------------------------------------
None == <<>>
NATIVE == "NATIVE"
WNATIVE == "0xWNATIVE"
TOKEN_A == "0xA"
TOKEN_B == "0xB"
ZERO_ADDRESS == "0x0000000000000000000000000000000000000000"
LB_PAIR == "0xLBPair"

\* token contracts of the chain
Addr == {WNATIVE, TOKEN_A, TOKEN_B}

FAST == "fast"
CHEAP == "cheap"
SECURE == "secure"
SwapStrategy == {FAST, CHEAP, SECURE}

\* the tier list with its first two entries exchanged
FallbackBinSteps_Exchanged == <<50, 25, 100, 20, 15>>

\* the tier list find_fallback_path walks, in its order
FallbackBinSteps == <<25, 50, 100, 20, 15>>
\* the bin steps getAllBinSteps can list
BinSteps == {15, 20, 25, 50, 100}
\* the bin steps at which the factory of the model holds pairs, ascending
\* (the order in which getAllLBPairs lists a pair's descriptors)
PoolBinStepsAscending == <<25, 50, 100>>
PoolBinSteps == {25, 50, 100}

\* fallback bin steps of the optimizer
STANDARD_FALLBACK == 25
HIGH_FALLBACK == 50

VARIABLES
    registry,            \* factory storage: pair key -> bin step -> "absent" | "pool" | "ignored"
    strategy,            \* SwapStrategy value of the call
    token_from,          \* swap endpoint of the request, a token or NATIVE
    token_to,            \* swap endpoint of the request, a token or NATIVE
    amount_in,           \* amount of the request
    max_slippage_percent,\* slippage of the request, in percent
    latest_tx,           \* previous transaction handed to the router, or None
    cmd_strategy,        \* ExecuteSwapCommand.strategy, a string
    cmd_amount_in,       \* ExecuteSwapCommand.amount_in, a string (its characters)
    wallet,              \* the wallet the repository holds for cmd.userid, or None
    transactions,        \* the wallet's transaction records in the repository, oldest first
    runs,                \* concurrent handler executions for one wallet: per execution its position and locals
    mempool,             \* raw transactions the chain received from the wallet, in order
    race_log,            \* the steps the concurrent executions took, in order
    events,              \* the domain events the aggregates raised, in order
    deliveries,          \* the TransactionCreated deliveries handled: transaction and what the tracking gave
    amount_out_min,      \* int(amount_in * (1 - max_slippage_percent / 100))
    wnative_address,     \* result of getWNATIVE
    actual_token_from,   \* token_from after the NATIVE substitution
    actual_token_to,     \* token_to after the NATIVE substitution
    pc,                  \* position of the call
    direct_pair,         \* result of the best-pair lookup of find_direct_path
    first_pair,          \* result of the first-leg lookup of find_intermediary_path
    second_pair,         \* result of the second-leg lookup of find_intermediary_path
    available_bin_steps, \* result of get_available_bin_steps in find_fallback_path
    probes,              \* pair_exists calls made by find_fallback_path, in order
    token_path,          \* result of build_optimal_path
    returned_by,         \* the stage of build_optimal_path that returned token_path
    pair_bin_steps,      \* result of get_optimal_bin_steps
    hop_read_ok,         \* per hop, whether the optimizer's chain read succeeded
    versions,            \* [1] * (len(token_path) - 1)
    clock,               \* time.time() as read by get_deadline: seconds and milliseconds
    deadline,            \* StrategyConfig.get_deadline(strategy)
    executor,            \* executor calls made by _execute_strategy_swap, in order
    call,                \* the contract call the executor prepared: function, arguments, nonce, value
    quoted_gas_price,    \* chain.eth.gas_price as read
    gas_price,           \* int(gas_price * 1.1)
    tx,                  \* the transaction dict, key -> value
    chain_calls,         \* chain interactions of the executor, in order
    result,              \* artifact returned to the caller, or None
    error                \* exception that left the call, or None

cmdVars == <<cmd_strategy, cmd_amount_in, wallet>>
raceVars == <<runs, mempool, race_log>>
ledgerVars == <<events, deliveries>>
reqVars == <<registry, strategy, token_from, token_to, amount_in,
             max_slippage_percent, latest_tx, cmdVars, transactions, raceVars, ledgerVars>>
routerVars == <<amount_out_min, wnative_address, actual_token_from, actual_token_to>>
lookupVars == <<direct_pair, first_pair, second_pair>>
fallbackVars == <<available_bin_steps, probes>>
dispatchVars == <<versions, clock, deadline, executor, call>>
execVars == <<quoted_gas_price, gas_price, tx, chain_calls, result>>

pathVars == <<token_path, returned_by>>

vars == <<reqVars, routerVars, pc, lookupVars, fallbackVars, pathVars,
          pair_bin_steps, hop_read_ok, dispatchVars, execVars, error>>

\* ------------------------------------------------------------------------
\* Helpers
\* ------------------------------------------------------------------------
SeqToSet(s) == {s[i] : i \in 1..Len(s)}

Last(s) == s[Len(s)]

RECURSIVE MaxOfSeq(_)
MaxOfSeq(s) ==
    IF Len(s) = 1 THEN s[1]
    ELSE LET m == MaxOfSeq(Tail(s)) IN IF s[1] >= m THEN s[1] ELSE m

\* Python min(seq, key=lambda x: x[0]): the first element with the least key
RECURSIVE MinByFirst(_)
MinByFirst(s) ==
    IF Len(s) = 1 THEN s[1]
    ELSE LET m == MinByFirst(Tail(s)) IN IF s[1][1] <= m[1] THEN s[1] ELSE m

RECURSIVE MapSeq(_, _)
MapSeq(Op(_), s) ==
    IF s = <<>> THEN <<>> ELSE <<Op(s[1])>> \o MapSeq(Op, Tail(s))

\* ------------------------------------------------------------------------
\* Python numbers.  An int that may exceed 32 bits is the sequence of its
\* digits in base 2^14, least significant first, without a leading zero
\* digit (0 is <<>>, 25 is <<25>>).  A float is an IEEE-754 double m * 2^e
\* with a 53-bit m (0.0 has m = <<>>); every float operation rounds its
\* exact result to nearest, ties to even.
\* ------------------------------------------------------------------------
MANTISSA_BITS == 53
DIGIT_BITS == 14
DIGIT_BASE == 16384

RECURSIVE BigNorm(_)
BigNorm(n) ==
    IF n = <<>> THEN <<>>
    ELSE IF n[Len(n)] = 0 THEN BigNorm(SubSeq(n, 1, Len(n) - 1)) ELSE n

RECURSIVE BigFromInt(_)
BigFromInt(k) ==
    IF k = 0 THEN <<>> ELSE <<k % DIGIT_BASE>> \o BigFromInt(k \div DIGIT_BASE)

RECURSIVE BigToInt(_)
BigToInt(n) == IF n = <<>> THEN 0 ELSE n[1] + DIGIT_BASE * BigToInt(Tail(n))

BigDigit(n, i) == IF i <= Len(n) THEN n[i] ELSE 0

RECURSIVE BigAddFrom(_, _, _, _)
BigAddFrom(a, b, carry, i) ==
    IF i > Len(a) /\ i > Len(b)
    THEN IF carry = 0 THEN <<>> ELSE <<carry>>
    ELSE LET t == BigDigit(a, i) + BigDigit(b, i) + carry
         IN <<t % DIGIT_BASE>> \o BigAddFrom(a, b, t \div DIGIT_BASE, i + 1)

BigAdd(a, b) == BigAddFrom(a, b, 0, 1)

\* a - b for a >= b
RECURSIVE BigSubFrom(_, _, _, _)
BigSubFrom(a, b, borrow, i) ==
    IF i > Len(a) THEN <<>>
    ELSE LET t == BigDigit(a, i) - BigDigit(b, i) - borrow
         IN <<t % DIGIT_BASE>> \o BigSubFrom(a, b, IF t < 0 THEN 1 ELSE 0, i + 1)

BigSub(a, b) == BigNorm(BigSubFrom(a, b, 0, 1))

\* n * k for 0 <= k < 2^14
RECURSIVE BigMulDigitFrom(_, _, _, _)
BigMulDigitFrom(n, k, carry, i) ==
    IF i > Len(n)
    THEN IF carry = 0 THEN <<>> ELSE <<carry>>
    ELSE LET t == n[i] * k + carry
         IN <<t % DIGIT_BASE>> \o BigMulDigitFrom(n, k, t \div DIGIT_BASE, i + 1)

BigMulDigit(n, k) == IF k = 0 THEN <<>> ELSE BigMulDigitFrom(n, k, 0, 1)

RECURSIVE BigMul(_, _)
BigMul(a, b) ==
    IF a = <<>> \/ b = <<>> THEN <<>>
    ELSE LET rest == BigMul(a, Tail(b))
         IN BigAdd(BigMulDigit(a, b[1]), IF rest = <<>> THEN <<>> ELSE <<0>> \o rest)

\* quotient and remainder of n by d, 0 < d < 2^16, from the top digit down
RECURSIVE BigDivFrom(_, _, _)
BigDivFrom(n, d, i) ==
    IF i > Len(n) THEN [q |-> <<>>, r |-> 0]
    ELSE LET upper == BigDivFrom(n, d, i + 1)
             t == DIGIT_BASE * upper.r + n[i]
         IN [q |-> <<t \div d>> \o upper.q, r |-> t % d]

BigDivInt(n, d) ==
    LET qr == BigDivFrom(n, d, 1) IN [q |-> BigNorm(qr.q), r |-> qr.r]

\* number of bits of 0 <= k < 2^14
RECURSIVE DigitLength(_)
DigitLength(k) == IF k = 0 THEN 0 ELSE 1 + DigitLength(k \div 2)

BigLength(n) == IF n = <<>> THEN 0 ELSE DIGIT_BITS * (Len(n) - 1) + DigitLength(n[Len(n)])

\* n * 2^k
BigShl(n, k) ==
    IF n = <<>> THEN <<>>
    ELSE [i \in 1..(k \div DIGIT_BITS) |-> 0] \o BigMulDigit(n, 2 ^ (k % DIGIT_BITS))

\* floor(n / 2^k)
BigShr(n, k) ==
    IF k \div DIGIT_BITS >= Len(n) THEN <<>>
    ELSE BigDivInt(SubSeq(n, k \div DIGIT_BITS + 1, Len(n)), 2 ^ (k % DIGIT_BITS)).q

\* bit k of n, bit 1 the least significant
BigBit(n, k) == (BigDigit(n, (k - 1) \div DIGIT_BITS + 1) \div (2 ^ ((k - 1) % DIGIT_BITS))) % 2

\* n mod 2^k is not 0
BigLowBitsSet(n, k) ==
    \/ \E i \in 1..(k \div DIGIT_BITS) : BigDigit(n, i) # 0
    \/ BigDigit(n, k \div DIGIT_BITS + 1) % (2 ^ (k % DIGIT_BITS)) # 0

\* the double nearest to n * 2^e, ties to even
FloatRound(n, e) ==
    IF n = <<>> THEN [m |-> <<>>, e |-> 0]
    ELSE IF BigLength(n) <= MANTISSA_BITS
    THEN [m |-> BigShl(n, MANTISSA_BITS - BigLength(n)),
          e |-> e - (MANTISSA_BITS - BigLength(n))]
    ELSE LET drop == BigLength(n) - MANTISSA_BITS
             kept == BigShr(n, drop)
             up == /\ BigBit(n, drop) = 1
                   /\ (BigLowBitsSet(n, drop - 1) \/ BigBit(kept, 1) = 1)
             m1 == IF up THEN BigAdd(kept, <<1>>) ELSE kept
         IN IF BigLength(m1) > MANTISSA_BITS
            THEN [m |-> BigShr(m1, 1), e |-> e + drop + 1]
            ELSE [m |-> m1, e |-> e + drop]

\* float(n) for a Python int n
IntToFloat(n) == FloatRound(n, 0)

\* int(x) for a float x >= 0
FloatToInt(x) == IF x.e >= 0 THEN BigShl(x.m, x.e) ELSE BigShr(x.m, 0 - x.e)

\* x / d for a float x >= 0 and an int 0 < d < 2^16; the quotient is taken
\* with 70 extra bits and one more that records a remainder
DIVISION_EXTRA_BITS == 70
FloatDivInt(x, d) ==
    LET qr == BigDivInt(BigShl(x.m, DIVISION_EXTRA_BITS), d)
    IN FloatRound(BigAdd(BigShl(qr.q, 1), IF qr.r # 0 THEN <<1>> ELSE <<>>),
                  x.e - DIVISION_EXTRA_BITS - 1)

\* x - y for floats x >= y >= 0
FloatSub(x, y) ==
    LET e == IF x.e <= y.e THEN x.e ELSE y.e
    IN FloatRound(BigSub(BigShl(x.m, x.e - e), BigShl(y.m, y.e - e)), e)

\* x * y for floats x, y >= 0
FloatMul(x, y) == FloatRound(BigMul(x.m, y.m), x.e + y.e)

\* the literals 1 and 1.1
FLOAT_1 == IntToFloat(<<1>>)
FLOAT_1_1 == FloatDivInt(IntToFloat(<<11>>), 10)

\* ------------------------------------------------------------------------
\* The factory contract (LBFactory), as the client reads it
\* ------------------------------------------------------------------------
\* the factory stores pairs under the sorted token pair
PairKey(token_a, token_b) == {token_a, token_b}
PairKeys == {PairKey(a, b) : a, b \in Addr}
\* pairs of two different tokens; the factory creates no pair of a token with itself
RealPairKeys == {k \in PairKeys : Cardinality(k) = 2}

\* an exception of the chain client, with its text
RpcError(text) == [type |-> "RpcError", msg |-> <<text>>, loc |-> <<>>]

\* getLBPairInformation(tokenA, tokenB, binStep).call()
\* (binStep, LBPair, createdByOwner, ignoredForRouting)
getLBPairInformation(token_a, token_b, bin_step) ==
    LET kind == IF bin_step \in PoolBinSteps
                THEN registry[PairKey(token_a, token_b)][bin_step]
                ELSE "absent"
    IN
    IF kind = "absent" THEN <<0, ZERO_ADDRESS, FALSE, FALSE>>
    ELSE <<bin_step, LB_PAIR, FALSE, kind = "ignored">>

\* getAllLBPairs(tokenX, tokenY).call(): the descriptors of the pair's bin steps
getAllLBPairs(token_a, token_b) ==
    LET Listed(bin_step) == registry[PairKey(token_a, token_b)][bin_step] # "absent"
        Info(bin_step) == getLBPairInformation(token_a, token_b, bin_step)
    IN MapSeq(Info, SelectSeq(PoolBinStepsAscending, Listed))

\* ------------------------------------------------------------------------
\* Pool Registry Client (TraderJoeFactoryProtocol).  rpc_ok tells whether
\* the chain read of the call succeeds.
\* ------------------------------------------------------------------------
get_pair_information(token_a, token_b, bin_step) ==
    getLBPairInformation(token_a, token_b, bin_step)

\* pair_exists that takes a failed chain read for an existing pair
pair_exists_failed_read_exists(token_a, token_b, bin_step, rpc_ok) ==
    IF ~rpc_ok THEN TRUE
    ELSE LET pair_info == get_pair_information(token_a, token_b, bin_step)
         IN pair_info[2] # ZERO_ADDRESS /\ ~pair_info[4]

pair_exists(token_a, token_b, bin_step, rpc_ok) ==
    IF ~rpc_ok THEN FALSE
    ELSE LET pair_info == get_pair_information(token_a, token_b, bin_step)
         IN pair_info[2] # ZERO_ADDRESS /\ ~pair_info[4]

get_all_pairs_for_tokens(token_a, token_b) == getAllLBPairs(token_a, token_b)

\* the filter that overlooks the ignoredForRouting flag
Suitable_IgnoredToo(pair) == pair[2] # ZERO_ADDRESS

\* the filter of get_best_pair_for_tokens and of _get_high_fee_bin_steps
Suitable(pair) == ~pair[4] /\ pair[2] # ZERO_ADDRESS

get_best_pair_for_tokens(token_a, token_b, rpc_ok) ==
    IF ~rpc_ok THEN None
    ELSE LET all_pairs == get_all_pairs_for_tokens(token_a, token_b)
             BinStepAndPair(pair) == <<pair[1], pair[2]>>
             suitable_pairs == MapSeq(BinStepAndPair, SelectSeq(all_pairs, Suitable))
         IN IF suitable_pairs = <<>> THEN None ELSE MinByFirst(suitable_pairs)

\* ------------------------------------------------------------------------
\* Path Finder (PathFinder, PathBuilder.build_optimal_path)
\* ------------------------------------------------------------------------
\* _get_available_quote_assets: the source returns no quote asset
get_available_quote_assets == <<>>

\* the candidates of a cheap call beginning with a quote asset
PotentialIntermediaries_cheap_quote_asset(wnative, strategy_type) ==
    IF strategy_type = CHEAP THEN <<TOKEN_B, wnative>> ELSE <<wnative>>

PotentialIntermediaries(wnative, strategy_type) ==
    <<wnative>> \o (IF strategy_type = CHEAP THEN get_available_quote_assets ELSE <<>>)

\* find_direct_path that makes the lookup and drops its result
find_direct_path_dropped(from, to, rpc_ok) ==
    [best_pair |-> get_best_pair_for_tokens(from, to, rpc_ok), path |-> None]

\* find_direct_path: the lookup it makes and the path it returns
find_direct_path(from, to, rpc_ok) ==
    LET best_pair == get_best_pair_for_tokens(from, to, rpc_ok)
    IN [best_pair |-> best_pair,
        path |-> IF best_pair # None THEN <<from, to>> ELSE None]

\* find_intermediary_path whose loop never returns the path it found
find_intermediary_path_no_return(from, to, wnative, strategy_type, ok1, ok2) ==
    LET intermediary == PotentialIntermediaries(wnative, strategy_type)[1]
    IN IF intermediary # from /\ intermediary # to
       THEN [first_pair |-> get_best_pair_for_tokens(from, intermediary, ok1),
             second_pair |-> get_best_pair_for_tokens(intermediary, to, ok2),
             path |-> None]
       ELSE [first_pair |-> None, second_pair |-> None, path |-> None]

\* find_intermediary_path that appends the intermediary to the endpoints
find_intermediary_path_appended(from, to, wnative, strategy_type, ok1, ok2) ==
    LET intermediary == PotentialIntermediaries(wnative, strategy_type)[1]
        first == get_best_pair_for_tokens(from, intermediary, ok1)
        second == get_best_pair_for_tokens(intermediary, to, ok2)
    IN IF intermediary # from /\ intermediary # to
       THEN [first_pair |-> first, second_pair |-> second,
             path |-> IF first # None /\ second # None
                      THEN <<from, to, intermediary>> ELSE None]
       ELSE [first_pair |-> None, second_pair |-> None, path |-> None]

\* find_intermediary_path: the lookups it makes and the path it returns.
\* The candidate list has the wrapped-native token alone, so the loop body
\* runs once; ok1 and ok2 tell whether its two chain reads succeed.
find_intermediary_path(from, to, wnative, strategy_type, ok1, ok2) ==
    LET intermediary == PotentialIntermediaries(wnative, strategy_type)[1]
        first == get_best_pair_for_tokens(from, intermediary, ok1)
        second == get_best_pair_for_tokens(intermediary, to, ok2)
    IN IF intermediary # from /\ intermediary # to
       THEN [first_pair |-> first, second_pair |-> second,
             path |-> IF first # None /\ second # None
                      THEN <<from, intermediary, to>> ELSE None]
       ELSE [first_pair |-> None, second_pair |-> None, path |-> None]

\* build_optimal_path, first stage
FindDirectPath ==
    /\ pc = "find_direct_path"
    /\ \E rpc_ok \in BOOLEAN :
        LET found == find_direct_path(actual_token_from, actual_token_to, rpc_ok)
        IN /\ direct_pair' = found.best_pair
           /\ IF found.path # None
                 THEN /\ token_path' = found.path
                      /\ returned_by' = "find_direct_path"
                      /\ pc' = "get_optimal_bin_steps"
                 ELSE /\ UNCHANGED pathVars
                      /\ pc' = "find_intermediary_path"
    /\ UNCHANGED <<reqVars, routerVars, first_pair, second_pair, fallbackVars,
                   pair_bin_steps, hop_read_ok, dispatchVars, execVars, error>>

\* build_optimal_path, second stage
FindIntermediaryPath ==
    /\ pc = "find_intermediary_path"
    /\ \E ok1, ok2 \in BOOLEAN :
        LET found == find_intermediary_path(actual_token_from, actual_token_to,
                                            wnative_address, strategy, ok1, ok2)
        IN /\ first_pair' = found.first_pair
           /\ second_pair' = found.second_pair
           /\ IF found.path # None
                 THEN /\ token_path' = found.path
                      /\ returned_by' = "find_intermediary_path"
                      /\ pc' = "get_optimal_bin_steps"
                 ELSE /\ UNCHANGED pathVars
                      /\ pc' = "find_fallback_path"
    /\ UNCHANGED <<reqVars, routerVars, direct_pair, fallbackVars,
                   pair_bin_steps, hop_read_ok, dispatchVars, execVars, error>>

\* catalogs getAllBinSteps returns: every bin step, every bin step but one, none
BinStepCatalogs == {BinSteps, {}} \cup {BinSteps \ {b} : b \in BinSteps}

\* one pair_exists call of find_fallback_path, as it is logged
Probe(token_a, token_b, bin_step, exists) ==
    [token_a |-> token_a, token_b |-> token_b, bin_step |-> bin_step, exists |-> exists]

\* The loop `for bin_step in [25, 50, 100, 20, 15]` of find_fallback_path from
\* index idx on: the set of its runs, one for every way the chain reads of
\* pair_exists succeed or fail.  A run is the pair_exists calls it makes, in
\* order, and the path it returns.
RECURSIVE FallbackRuns(_, _, _, _, _)
FallbackRuns(from, to, wnative, available, idx) ==
    IF idx > Len(FallbackBinSteps)
    THEN {[probes |-> <<>>, path |-> <<from, to>>]}
    ELSE LET bin_step == FallbackBinSteps[idx]
             later == FallbackRuns(from, to, wnative, available, idx + 1)
             first_results == {pair_exists(from, wnative, bin_step, ok) : ok \in BOOLEAN}
             second_results == {pair_exists(wnative, to, bin_step, ok) : ok \in BOOLEAN}
             Called(first_exists, second_exists) ==
                 << Probe(from, wnative, bin_step, first_exists),
                    Probe(wnative, to, bin_step, second_exists) >>
         IN IF bin_step \in available
            THEN UNION {
                   IF first_exists /\ second_exists
                   THEN {[probes |-> Called(first_exists, second_exists),
                          path |-> <<from, wnative, to>>]}
                   ELSE {[probes |-> Called(first_exists, second_exists) \o run.probes,
                          path |-> run.path] : run \in later}
                   : first_exists \in first_results, second_exists \in second_results }
            ELSE later

\* find_fallback_path, and the last branch of build_optimal_path.  The read
\* get_available_bin_steps is not guarded: when it fails, the exception
\* leaves build_optimal_path.
FindFallbackPath ==
    /\ pc = "find_fallback_path"
    /\ \/ \E catalog \in BinStepCatalogs :
          \E run \in FallbackRuns(actual_token_from, actual_token_to,
                                  wnative_address, catalog, 1) :
            /\ available_bin_steps' = catalog
            /\ probes' = run.probes
            /\ token_path' = run.path
            /\ returned_by' = "find_fallback_path"
            /\ pc' = "get_optimal_bin_steps"
            /\ error' = error
       \/ /\ error' = RpcError("getAllBinSteps failed")
          /\ pc' = "raised"
          /\ UNCHANGED <<fallbackVars, pathVars>>
    /\ UNCHANGED <<reqVars, routerVars, lookupVars, pair_bin_steps, hop_read_ok,
                   dispatchVars, execVars>>

\* build_optimal_path as one function of its arguments and of its chain
\* reads: rpc_ok, ok1 and ok2 tell whether the lookups of the first two
\* stages succeed, catalog is what getAllBinSteps returns.  Its value is the
\* set of results it can return, each with the pair_exists calls made.
build_optimal_path(from, to, strategy_type, wnative, rpc_ok, ok1, ok2, catalog) ==
    LET direct_path == find_direct_path(from, to, rpc_ok).path
        intermediary_path == find_intermediary_path(from, to, wnative, strategy_type, ok1, ok2).path
    IN IF direct_path # None THEN {[probes |-> <<>>, path |-> direct_path]}
       ELSE IF intermediary_path # None THEN {[probes |-> <<>>, path |-> intermediary_path]}
       ELSE FallbackRuns(from, to, wnative, catalog, 1)

\* ------------------------------------------------------------------------
\* Fee-Tier Optimizer (BinStepOptimizer).  oks[i] tells whether the chain
\* read of hop i succeeds.
\* ------------------------------------------------------------------------
Hops(path) == 1..(Len(path) - 1)

\* _get_best_available_bin_steps that returns after the first hop
_get_best_available_bin_steps_first_hop(path, oks) ==
    LET best_pair == get_best_pair_for_tokens(path[1], path[2], oks[1])
    IN <<IF best_pair # None THEN best_pair[1] ELSE STANDARD_FALLBACK>>

_get_best_available_bin_steps(path, oks) ==
    [i \in Hops(path) |->
        LET best_pair == get_best_pair_for_tokens(path[i], path[i + 1], oks[i])
        IN IF best_pair # None THEN best_pair[1] ELSE STANDARD_FALLBACK]

\* _get_high_fee_bin_steps that takes the least bin step of a hop
_get_high_fee_bin_steps_least(path) ==
    [i \in Hops(path) |->
        LET all_pairs == get_all_pairs_for_tokens(path[i], path[i + 1])
            BinStepOf(pair) == pair[1]
            suitable_pairs == MapSeq(BinStepOf, SelectSeq(all_pairs, Suitable))
        IN IF suitable_pairs # <<>> THEN suitable_pairs[1] ELSE HIGH_FALLBACK]

\* _get_high_fee_bin_steps with the fallback of the other branch
_get_high_fee_bin_steps_standard_fallback(path) ==
    [i \in Hops(path) |->
        LET all_pairs == get_all_pairs_for_tokens(path[i], path[i + 1])
            BinStepOf(pair) == pair[1]
            suitable_pairs == MapSeq(BinStepOf, SelectSeq(all_pairs, Suitable))
        IN IF suitable_pairs # <<>> THEN MaxOfSeq(suitable_pairs) ELSE STANDARD_FALLBACK]

\* every get_all_pairs_for_tokens read of the loop succeeded
_get_high_fee_bin_steps(path) ==
    [i \in Hops(path) |->
        LET all_pairs == get_all_pairs_for_tokens(path[i], path[i + 1])
            BinStepOf(pair) == pair[1]
            suitable_pairs == MapSeq(BinStepOf, SelectSeq(all_pairs, Suitable))
        IN IF suitable_pairs # <<>> THEN MaxOfSeq(suitable_pairs) ELSE HIGH_FALLBACK]

\* get_optimal_bin_steps: the cheap branch reads with get_all_pairs_for_tokens,
\* which is not guarded, so its first failing read leaves as an exception
GetOptimalBinSteps ==
    /\ pc = "get_optimal_bin_steps"
    /\ \E oks \in [Hops(token_path) -> BOOLEAN] :
        IF strategy = CHEAP
        THEN IF \A i \in Hops(token_path) : oks[i]
             THEN /\ pair_bin_steps' = _get_high_fee_bin_steps(token_path)
                  /\ hop_read_ok' = oks
                  /\ pc' = "dispatch"
                  /\ error' = error
             ELSE LET failed == CHOOSE i \in Hops(token_path) :
                                  /\ ~oks[i]
                                  /\ \A j \in Hops(token_path) : j < i => oks[j]
                  IN /\ pair_bin_steps' = pair_bin_steps
                     /\ hop_read_ok' = [j \in 1..failed |-> oks[j]]
                     /\ pc' = "raised"
                     /\ error' = RpcError("getAllLBPairs failed")
        ELSE /\ pair_bin_steps' = _get_best_available_bin_steps(token_path, oks)
             /\ hop_read_ok' = oks
             /\ pc' = "dispatch"
             /\ error' = error
    /\ UNCHANGED <<reqVars, routerVars, lookupVars, fallbackVars, pathVars,
                   dispatchVars, execVars>>

\* ------------------------------------------------------------------------
\* Router Facade (TraderJoeProtocol._execute_strategy_swap)
\* ------------------------------------------------------------------------
\* int(amount_in * (1 - max_slippage_percent / 100)) in float arithmetic,
\* for an amount below 2^31 and a slippage in whole percent
AmountOutMin(amount, slippage_percent) ==
    BigToInt(FloatToInt(FloatMul(IntToFloat(BigFromInt(amount)),
        FloatSub(FLOAT_1, FloatDivInt(IntToFloat(BigFromInt(slippage_percent)), 100)))))

\* the substitution that leaves the endpoint as it is
Substitute_Identity(token, wnative) == token

\* wnative_address if token == "NATIVE" else token
Substitute(token, wnative) == IF token = NATIVE THEN wnative ELSE token

\* swap_fast / swap_cheap / swap_secure up to the call of build_optimal_path:
\* amount_out_min, get_wnative_address (an unguarded chain read), substitution
ExecuteStrategySwap_Start ==
    /\ pc = "execute_strategy_swap"
    /\ amount_out_min' = AmountOutMin(amount_in, max_slippage_percent)
    /\ \/ /\ wnative_address' = WNATIVE
          /\ actual_token_from' = Substitute(token_from, wnative_address')
          /\ actual_token_to' = Substitute(token_to, wnative_address')
          /\ pc' = "find_direct_path"
          /\ error' = error
       \/ /\ error' = RpcError("getWNATIVE failed")
          /\ pc' = "raised"
          /\ UNCHANGED <<wnative_address, actual_token_from, actual_token_to>>
    /\ UNCHANGED <<reqVars, lookupVars, fallbackVars, pathVars, pair_bin_steps,
                   hop_read_ok, dispatchVars, execVars>>

\* Strategy Policy: StrategyConfig.get_deadline
FAST_DEADLINE == 1200
DEFAULT_DEADLINE == 1800
\* int(time.time())
TimeToInt(time_time) == time_time.s

\* get_deadline with the two offsets exchanged
get_deadline_exchanged(strategy_, time_time) ==
    LET base_time == TimeToInt(time_time)
    IN base_time + (IF strategy_ = FAST THEN DEFAULT_DEADLINE ELSE FAST_DEADLINE)

get_deadline(strategy_, time_time) ==
    LET base_time == TimeToInt(time_time)
    IN base_time + (IF strategy_ = FAST THEN FAST_DEADLINE ELSE DEFAULT_DEADLINE)

\* readings of time.time()
ClockReadings == {[s |-> 1700000000, ms |-> 0], [s |-> 1700000045, ms |-> 999]}

\* ------------------------------------------------------------------------
\* Swap Executor (SwapExecutor): the contract call each variant prepares
\* ------------------------------------------------------------------------
RECIPIENT == "0xRecipient"
SENDER == "0xSender"
ROUTER == "0xRouter"
CHAIN_ID == "43114"

PathStruct(bin_steps, versions_, path) == <<bin_steps, versions_, path>>

execute_native_for_tokens(amount_out_min_, path, bin_steps, versions_, deadline_, to_address, latest_tx_, native_amount) ==
    [function |-> "swapExactNATIVEForTokens",
     args |-> <<amount_out_min_, PathStruct(bin_steps, versions_, path), to_address, deadline_>>,
     nonce |-> IF latest_tx_ # None THEN latest_tx_.nonce + 1 ELSE 0,
     value |-> <<native_amount>>]

execute_tokens_for_native(amount_in_, amount_out_min_, path, bin_steps, versions_, deadline_, to_address, latest_tx_) ==
    [function |-> "swapExactTokensForNATIVE",
     args |-> <<amount_in_, amount_out_min_, PathStruct(bin_steps, versions_, path),
                to_address, deadline_>>,
     nonce |-> IF latest_tx_ # None THEN latest_tx_.nonce + 1 ELSE 0,
     value |-> None]

\* execute_tokens_for_tokens that reuses the nonce of the previous transaction
execute_tokens_for_tokens_reused_nonce(amount_in_, amount_out_min_, path, bin_steps, versions_, deadline_, to_address, latest_tx_) ==
    [function |-> "swapExactTokensForTokens",
     args |-> <<amount_in_, amount_out_min_, PathStruct(bin_steps, versions_, path),
                to_address, deadline_>>,
     nonce |-> IF latest_tx_ # None THEN latest_tx_.nonce ELSE 0,
     value |-> None]

execute_tokens_for_tokens(amount_in_, amount_out_min_, path, bin_steps, versions_, deadline_, to_address, latest_tx_) ==
    [function |-> "swapExactTokensForTokens",
     args |-> <<amount_in_, amount_out_min_, PathStruct(bin_steps, versions_, path),
                to_address, deadline_>>,
     nonce |-> IF latest_tx_ # None THEN latest_tx_.nonce + 1 ELSE 0,
     value |-> None]

\* the path struct of a prepared call
CallPath(call_) == call_.args[Len(call_.args) - 2]

\* the branch that looks at no endpoint
ExecutorVariant_TokensOnly(from, to) == "execute_tokens_for_tokens"

\* the branch of _execute_strategy_swap, on the endpoints of the request
ExecutorVariant(from, to) ==
    IF from = NATIVE /\ to # NATIVE THEN "execute_native_for_tokens"
    ELSE IF from # NATIVE /\ to = NATIVE THEN "execute_tokens_for_native"
    ELSE "execute_tokens_for_tokens"

\* _execute_strategy_swap after get_optimal_bin_steps: versions, deadline and
\* the call of the executor variant
ExecuteStrategySwap_Dispatch ==
    /\ pc = "dispatch"
    /\ \E time_time \in ClockReadings :
        LET versions_ == [i \in Hops(token_path) |-> 1]
            deadline_ == get_deadline(strategy, time_time)
            variant == ExecutorVariant(token_from, token_to)
        IN /\ versions' = versions_
           /\ clock' = time_time
           /\ deadline' = deadline_
           /\ executor' = Append(executor, variant)
           /\ call' =
                CASE variant = "execute_native_for_tokens" ->
                        execute_native_for_tokens(amount_out_min, token_path, pair_bin_steps,
                            versions_, deadline_, RECIPIENT, latest_tx, amount_in)
                  [] variant = "execute_tokens_for_native" ->
                        execute_tokens_for_native(amount_in, amount_out_min, token_path,
                            pair_bin_steps, versions_, deadline_, RECIPIENT, latest_tx)
                  [] OTHER ->
                        execute_tokens_for_tokens(amount_in, amount_out_min, token_path,
                            pair_bin_steps, versions_, deadline_, RECIPIENT, latest_tx)
    /\ pc' = "gas_price"
    /\ UNCHANGED <<reqVars, routerVars, lookupVars, fallbackVars, pathVars,
                   pair_bin_steps, hop_read_ok, execVars, error>>

\* ------------------------------------------------------------------------
\* Swap Executor: gas price, build, estimate, sign, submit.  The steps of
\* execute_native_for_tokens are those of _build_and_send_transaction, with
\* the native amount as the transaction's value.
\* ------------------------------------------------------------------------
\* quotes of chain.eth.gas_price in wei: 25 gwei, 33 gwei + 3 wei, 2^49 + 7 wei
GWEI == BigFromInt(1000000000)
GasPriceQuotes ==
    {BigMulDigit(GWEI, 25),
     BigAdd(BigMulDigit(GWEI, 33), <<3>>),
     BigAdd(BigShl(<<1>>, 49), <<7>>)}
GasEstimates == {210000}
TxHashes == {"ab12"}

\* Python dict operations on the transaction
DictGet(d, key, default) == IF key \in DOMAIN d THEN d[key] ELSE default
DictSet(d, key, value) == [k \in DOMAIN d \cup {key} |-> IF k = key THEN value ELSE d[k]]

\* int(gas_price * 1.1)
AdjustedGasPrice(quoted) == FloatToInt(FloatMul(IntToFloat(quoted), FLOAT_1_1))

\* BlockchainTransactionError.from_error
BlockchainTransactionError_from_error(tx_hash, error_message) ==
    [type |-> "BlockchainTransactionError",
     msg |-> <<"Transaction ", tx_hash, " failed: ", error_message>>,
     loc |-> <<"blockchain", "transaction", tx_hash>>]

\* the handler that lets the underlying error through
TransactionFailure_Reraised(tx_, error_message) == RpcError(error_message)

\* except Exception as e: raise BlockchainTransactionError.from_error(
\*     tx.get('txHash', 'unknown'), str(e))
TransactionFailure(tx_, error_message) ==
    BlockchainTransactionError_from_error(DictGet(tx_, "txHash", "unknown"), error_message)

\* the transaction dict without its nonce
build_transaction_without_nonce(call_, sender, gas_price_) ==
    LET base == [k \in {"from", "chainId", "gasPrice", "to", "data"} |->
                    CASE k = "from" -> sender
                      [] k = "chainId" -> CHAIN_ID
                      [] k = "gasPrice" -> gas_price_
                      [] k = "to" -> ROUTER
                      [] OTHER -> <<call_.function, call_.args>>]
    IN IF call_.value # None THEN DictSet(base, "value", call_.value[1]) ELSE base

\* contract.functions.<function>(*args).build_transaction({...})
build_transaction(call_, sender, gas_price_) ==
    LET base == [k \in {"from", "nonce", "chainId", "gasPrice", "to", "data"} |->
                    CASE k = "from" -> sender
                      [] k = "nonce" -> call_.nonce
                      [] k = "chainId" -> CHAIN_ID
                      [] k = "gasPrice" -> gas_price_
                      [] k = "to" -> ROUTER
                      [] OTHER -> <<call_.function, call_.args>>]
    IN IF call_.value # None THEN DictSet(base, "value", call_.value[1]) ELSE base

\* ensure_chain and the gas price read, outside the try block
ReadGasPrice ==
    /\ pc = "gas_price"
    /\ chain_calls' = Append(chain_calls, "gas_price")
    /\ \/ /\ \E quoted \in GasPriceQuotes :
                /\ quoted_gas_price' = quoted
                /\ gas_price' = AdjustedGasPrice(quoted)
          /\ pc' = "build_transaction"
          /\ error' = error
       \/ /\ error' = RpcError("gas_price failed")
          /\ pc' = "raised"
          /\ UNCHANGED <<quoted_gas_price, gas_price>>
    /\ UNCHANGED <<reqVars, routerVars, lookupVars, fallbackVars, pathVars,
                   pair_bin_steps, hop_read_ok, dispatchVars, tx, result>>

\* build_transaction, outside the try block
BuildTransaction ==
    /\ pc = "build_transaction"
    /\ chain_calls' = Append(chain_calls, "build_transaction")
    /\ \/ /\ tx' = build_transaction(call, SENDER, gas_price)
          /\ pc' = "estimate_gas"
          /\ error' = error
       \/ /\ error' = RpcError("build_transaction failed")
          /\ pc' = "raised"
          /\ tx' = tx
    /\ UNCHANGED <<reqVars, routerVars, lookupVars, fallbackVars, pathVars,
                   pair_bin_steps, hop_read_ok, dispatchVars, quoted_gas_price, gas_price, result>>

\* try: tx['gas'] = self.w3.eth.estimate_gas(tx)
EstimateGas ==
    /\ pc = "estimate_gas"
    /\ chain_calls' = Append(chain_calls, "estimate_gas")
    /\ \/ /\ \E gas \in GasEstimates : tx' = DictSet(tx, "gas", gas)
          /\ pc' = "sign_transaction"
          /\ error' = error
       \/ /\ error' = TransactionFailure(tx, "estimate_gas failed")
          /\ pc' = "raised"
          /\ tx' = tx
    /\ UNCHANGED <<reqVars, routerVars, lookupVars, fallbackVars, pathVars,
                   pair_bin_steps, hop_read_ok, dispatchVars, quoted_gas_price, gas_price, result>>

\* signed_tx = sender.account.sign_transaction(tx)
SignTransaction ==
    /\ pc = "sign_transaction"
    /\ chain_calls' = Append(chain_calls, "sign_transaction")
    /\ \/ /\ pc' = "send_raw_transaction"
          /\ error' = error
       \/ /\ error' = TransactionFailure(tx, "sign_transaction failed")
          /\ pc' = "raised"
    /\ UNCHANGED <<reqVars, routerVars, lookupVars, fallbackVars, pathVars,
                   pair_bin_steps, hop_read_ok, dispatchVars, quoted_gas_price, gas_price, tx, result>>

\* a submission that is attempted again after it failed
SendRawTransaction_Retried ==
    /\ pc = "send_raw_transaction"
    /\ Len(chain_calls) < 6
    /\ chain_calls' = Append(chain_calls, "send_raw_transaction")
    /\ \/ /\ \E tx_hash \in TxHashes : tx' = DictSet(tx, "txHash", <<"0x", tx_hash>>)
          /\ result' = tx'
          /\ pc' = "returned"
       \/ /\ pc' = "send_raw_transaction"
          /\ UNCHANGED <<tx, result>>
    /\ UNCHANGED <<reqVars, routerVars, lookupVars, fallbackVars, pathVars,
                   pair_bin_steps, hop_read_ok, dispatchVars, quoted_gas_price, gas_price, error>>

\* tx_hash = send_raw_transaction(...); tx['txHash'] = f"0x{tx_hash.hex()}"; return tx
SendRawTransaction ==
    /\ pc = "send_raw_transaction"
    /\ chain_calls' = Append(chain_calls, "send_raw_transaction")
    /\ \/ /\ \E tx_hash \in TxHashes : tx' = DictSet(tx, "txHash", <<"0x", tx_hash>>)
          /\ result' = tx'
          /\ pc' = "returned"
          /\ error' = error
       \/ /\ error' = TransactionFailure(tx, "send_raw_transaction failed")
          /\ pc' = "raised"
          /\ UNCHANGED <<tx, result>>
    /\ UNCHANGED <<reqVars, routerVars, lookupVars, fallbackVars, pathVars,
                   pair_bin_steps, hop_read_ok, dispatchVars, quoted_gas_price, gas_price>>

\* ------------------------------------------------------------------------
\* Service layer: execute_traderjoe_swap_handler.  Text (str) is a sequence of
\* characters.
\* ------------------------------------------------------------------------
DecimalDigits == <<"0", "1", "2", "3", "4", "5", "6", "7", "8", "9">>

DigitValue(c) == (CHOOSE i \in 1..10 : DecimalDigits[i] = c) - 1

\* the texts of which int(text) makes a number
IsDecimalText(text) == Len(text) > 0 /\ \A i \in 1..Len(text) : text[i] \in SeqToSet(DecimalDigits)

\* int(text), an exact integer
RECURSIVE BigOfTextFrom(_, _, _)
BigOfTextFrom(text, i, acc) ==
    IF i > Len(text) THEN acc
    ELSE BigOfTextFrom(text, i + 1, BigAdd(BigMulDigit(acc, 10), BigFromInt(DigitValue(text[i]))))

BigOfText(text) == BigOfTextFrom(text, 1, <<>>)

\* str(n) of an exact integer
RECURSIVE TextOfBigFrom(_, _)
TextOfBigFrom(n, acc) ==
    IF n = <<>> THEN acc
    ELSE LET d == BigDivInt(n, 10) IN TextOfBigFrom(d.q, <<DecimalDigits[d.r + 1]>> \o acc)

TextOfBig(n) == IF n = <<>> THEN <<"0">> ELSE TextOfBigFrom(n, <<>>)

ValueError(text) == [type |-> "ValueError", msg |-> <<text>>, loc |-> <<>>]

\* the values of the enumerations of the domain model
TransactionType == {"GIVE_APPROVAL", "REVOKE_APPROVAL", "SWAP_NATIVE_TO_TOKEN", "SWAP_TOKEN_TO_NATIVE", "SWAP_TOKEN_TO_TOKEN"}
TransactionStatus == {"PENDING", "CONFIRMED", "FAILED"}

\* TransactionHash: the pattern 0x and hexadecimal digits
IsTransactionHash(value) == Len(value) = 2 /\ value[1] = "0x"

\* the methods of the repository (AbstractRepository and its SQLAlchemy
\* implementation declare the same public names)
AbstractRepository ==
    {"add_wallet", "get_wallet", "get_wallet_by_address", "get_wallet_by_userid",
     "add_chain", "get_chain", "get_chain_by_symbol", "get_supported_chains",
     "add_token", "get_token", "get_token_by_symbol", "get_token_by_contract",
     "get_supported_tokens", "add_transaction", "get_transaction",
     "get_transaction_by_hash", "get_user_transactions", "get_pending_transactions",
     "add_swap", "get_swap", "get_swap_by_transaction_id", "add_token_approval",
     "get_token_approval", "add_approval_transaction", "get_approval_transaction",
     "get_last_confirmed_transaction"}

AttributeError(name) == [type |-> "AttributeError", msg |-> <<name>>, loc |-> <<>>]

\* whether puow.repo.<name> resolves: FALSE for a name the repository of this
\* code base does not declare, TRUE for a unit of work whose repository
\* provides the method all the same
RepoProvides(name) == {name \in AbstractRepository, TRUE}

\* get_last_confirmed_transaction(chain_id, wallet_id): the newest CONFIRMED
\* transaction of the wallet on the chain, or None (transactions_ holds the
\* transactions of that wallet and chain in the order of created_at)
RECURSIVE get_last_confirmed_transaction(_)
get_last_confirmed_transaction(transactions_) ==
    IF transactions_ = <<>> THEN None
    ELSE IF Last(transactions_).transaction_status = "CONFIRMED" THEN Last(transactions_)
    ELSE get_last_confirmed_transaction(SubSeq(transactions_, 1, Len(transactions_) - 1))

\* the lookup of the wallet's previous transaction the swap handler calls on
\* the repository.  repository.py declares no method of this name; where a
\* repository provides it, it is the lookup the specification describes: the
\* last confirmed transaction, or None.
get_latest_transaction_by_wallet_id(transactions_) == get_last_confirmed_transaction(transactions_)

\* the strategy with an unknown name taken for secure
SwapMethod_DefaultSecure(cmd_strategy_) == IF cmd_strategy_ \in {"fast", "cheap"} THEN <<cmd_strategy_>> ELSE <<SECURE>>

\* the branch on cmd.strategy: <<the SwapStrategy of the swap_* method
\* called>>, or None for the final else
SwapMethod(cmd_strategy_) ==
    IF cmd_strategy_ = "fast" THEN <<FAST>>
    ELSE IF cmd_strategy_ = "cheap" THEN <<CHEAP>>
    ELSE IF cmd_strategy_ = "secure" THEN <<SECURE>>
    ELSE None

\* the handler up to the call of swap_fast / swap_cheap / swap_secure: wallet,
\* previous transaction, protocol instance, branch on the strategy, int(amount_in)
ExecuteTraderjoeSwapHandler_Start ==
    /\ pc = "handler"
    /\ IF wallet = None THEN
            /\ error' = ValueError("Wallet not found for user")
            /\ pc' = "raised"
            /\ UNCHANGED <<latest_tx, strategy, amount_in>>
       ELSE IF ~wallet.is_active THEN
            /\ error' = ValueError("Wallet is not active for user")
            /\ pc' = "raised"
            /\ UNCHANGED <<latest_tx, strategy, amount_in>>
       ELSE \E provided \in RepoProvides("get_latest_transaction_by_wallet_id") :
            IF ~provided THEN
                 /\ error' = AttributeError("get_latest_transaction_by_wallet_id")
                 /\ pc' = "raised"
                 /\ UNCHANGED <<latest_tx, strategy, amount_in>>
            ELSE /\ latest_tx' = get_latest_transaction_by_wallet_id(transactions)
                 /\ IF SwapMethod(cmd_strategy) = None THEN
                         /\ error' = ValueError("Invalid strategy")
                         /\ pc' = "raised"
                         /\ UNCHANGED <<strategy, amount_in>>
                    ELSE IF ~IsDecimalText(cmd_amount_in) THEN
                         /\ error' = ValueError("invalid literal for int() with base 10")
                         /\ pc' = "raised"
                         /\ UNCHANGED <<strategy, amount_in>>
                    ELSE /\ strategy' = SwapMethod(cmd_strategy)[1]
                         /\ amount_in' = BigToInt(BigOfText(cmd_amount_in))
                         /\ pc' = "execute_strategy_swap"
                         /\ error' = error
    /\ UNCHANGED <<registry, token_from, token_to, max_slippage_percent, cmdVars,
                   transactions, raceVars, ledgerVars, routerVars, lookupVars, fallbackVars, pathVars,
                   pair_bin_steps, hop_read_ok, dispatchVars, execVars>>

\* the handler after the swap returned: Transaction.create and add_transaction;
\* an exception leaves the unit of work, which rolls back
ExecuteTraderjoeSwapHandler_Record ==
    /\ pc = "returned"
    /\ IF "TRADERJOE_SWAP" \notin TransactionType THEN
            /\ error' = ValueError("'TRADERJOE_SWAP' is not a valid TransactionType")
            /\ pc' = "raised"
            /\ UNCHANGED transactions
       ELSE IF ~IsTransactionHash(result["txHash"]) THEN
            /\ error' = ValueError("String should match pattern '^0x[a-fA-F0-9]{64}$'")
            /\ pc' = "raised"
            /\ UNCHANGED transactions
       ELSE /\ transactions' = Append(transactions,
                    [transaction_type |-> "TRADERJOE_SWAP",
                     transaction_hash |-> result["txHash"],
                     transaction_status |-> "PENDING",
                     gas |-> BigToInt(BigOfText(TextOfBig(BigFromInt(result["gas"])))),
                     gas_price |-> BigOfText(TextOfBig(result["gasPrice"])),
                     nonce |-> BigToInt(BigOfText(TextOfBig(BigFromInt(result["nonce"]))))])
            /\ pc' = "handled"
            /\ error' = error
    /\ UNCHANGED <<registry, strategy, token_from, token_to, amount_in, max_slippage_percent,
                   latest_tx, cmdVars, raceVars, ledgerVars, routerVars, lookupVars, fallbackVars, pathVars,
                   pair_bin_steps, hop_read_ok, dispatchVars, execVars>>

\* ------------------------------------------------------------------------
\* Registries and requests
\* ------------------------------------------------------------------------
\* the pairs a call for (a, b) reads: the direct pair and the two legs over
\* the wrapped-native token
HopKeys(a, b) == {PairKey(a, b), PairKey(a, WNATIVE), PairKey(WNATIVE, b)} \cap RealPairKeys

\* the registries with at most n listed pools, all of them on the pairs `keys`
Registries(keys, n) ==
    UNION { { [k \in PairKeys |-> [b \in PoolBinSteps |->
                  IF <<k, b>> \in listed THEN kinds[<<k, b>>] ELSE "absent"]]
              : kinds \in [listed -> {"pool", "ignored"}] }
            : listed \in {s \in SUBSET (keys \X PoolBinSteps) : Cardinality(s) <= n} }

EligibleBinSteps(token_a, token_b) ==
    {b \in PoolBinSteps : registry[PairKey(token_a, token_b)][b] = "pool"}

Max(S) == CHOOSE x \in S : \A y \in S : y <= x
Min(S) == CHOOSE x \in S : \A y \in S : x <= y

\* ------------------------------------------------------------------------
\* SpecRoute: build_optimal_path followed by get_optimal_bin_steps, for any
\* registry, any pair of tokens and any strategy
\* ------------------------------------------------------------------------
InitRoute ==
    /\ strategy \in SwapStrategy
    /\ token_from \in {TOKEN_A, WNATIVE}
    /\ token_to \in {TOKEN_B, WNATIVE}
    /\ registry \in Registries(HopKeys(token_from, token_to), MaxPools)
    /\ amount_in = 0
    /\ max_slippage_percent = 0
    /\ latest_tx = None
    /\ amount_out_min = 0
    /\ wnative_address = WNATIVE
    /\ actual_token_from = token_from
    /\ actual_token_to = token_to
    /\ pc = "find_direct_path"
    /\ direct_pair = None
    /\ first_pair = None
    /\ second_pair = None
    /\ available_bin_steps = {}
    /\ returned_by = None
    /\ probes = <<>>
    /\ token_path = None
    /\ pair_bin_steps = None
    /\ hop_read_ok = None
    /\ versions = None
    /\ clock = None
    /\ deadline = 0
    /\ executor = <<>>
    /\ call = None
    /\ quoted_gas_price = None
    /\ gas_price = None
    /\ tx = None
    /\ chain_calls = <<>>
    /\ result = None
    /\ error = None
    /\ cmd_strategy = strategy
    /\ cmd_amount_in = None
    /\ wallet = None
    /\ transactions = <<>>
    /\ runs = <<>>
    /\ mempool = <<>>
    /\ race_log = <<>>
    /\ events = <<>>
    /\ deliveries = <<>>

NextRoute ==
    \/ FindDirectPath
    \/ FindIntermediaryPath
    \/ FindFallbackPath
    \/ GetOptimalBinSteps

SpecRoute == InitRoute /\ [][NextRoute]_vars

\* The whole router call: request, substitution, path, bin steps, dispatch.
LatestTransactions == {None} \cup {[nonce |-> n] : n \in 0..MaxNonce}

InitSwap ==
    /\ strategy \in SwapStrategy
    /\ token_from \in {NATIVE, TOKEN_A}
    /\ token_to \in {NATIVE, TOKEN_B}
    /\ registry \in Registries(HopKeys(Substitute(token_from, WNATIVE),
                                       Substitute(token_to, WNATIVE)), MaxSwapPools)
    /\ amount_in = 1000000
    /\ max_slippage_percent = 1
    /\ latest_tx \in {None, [nonce |-> 0]}
    /\ amount_out_min = 0
    /\ wnative_address = None
    /\ actual_token_from = None
    /\ actual_token_to = None
    /\ pc = "execute_strategy_swap"
    /\ direct_pair = None
    /\ first_pair = None
    /\ second_pair = None
    /\ available_bin_steps = {}
    /\ returned_by = None
    /\ probes = <<>>
    /\ token_path = None
    /\ pair_bin_steps = None
    /\ hop_read_ok = None
    /\ versions = None
    /\ clock = None
    /\ deadline = 0
    /\ executor = <<>>
    /\ call = None
    /\ quoted_gas_price = None
    /\ gas_price = None
    /\ tx = None
    /\ chain_calls = <<>>
    /\ result = None
    /\ error = None
    /\ cmd_strategy = strategy
    /\ cmd_amount_in = None
    /\ wallet = None
    /\ transactions = <<>>
    /\ runs = <<>>
    /\ mempool = <<>>
    /\ race_log = <<>>
    /\ events = <<>>
    /\ deliveries = <<>>

NextSwap ==
    \/ ExecuteStrategySwap_Start
    \/ FindDirectPath
    \/ FindIntermediaryPath
    \/ FindFallbackPath
    \/ GetOptimalBinSteps
    \/ ExecuteStrategySwap_Dispatch

SpecSwap == InitSwap /\ [][NextSwap]_vars

\* The whole router call on an empty factory, for requests that differ in
\* amount_in and max_slippage_percent.
EmptyRegistry == [k \in PairKeys |-> [b \in PoolBinSteps |-> "absent"]]
Amounts == (0..MaxAmount) \cup {1000000}
SlippagePercents == {0, 1, 30, 50, 99}

InitAmount ==
    /\ strategy = FAST
    /\ token_from = TOKEN_A
    /\ token_to = TOKEN_B
    /\ registry = EmptyRegistry
    /\ amount_in \in Amounts
    /\ max_slippage_percent \in SlippagePercents
    /\ latest_tx = None
    /\ amount_out_min = 0
    /\ wnative_address = None
    /\ actual_token_from = None
    /\ actual_token_to = None
    /\ pc = "execute_strategy_swap"
    /\ direct_pair = None
    /\ first_pair = None
    /\ second_pair = None
    /\ available_bin_steps = {}
    /\ returned_by = None
    /\ probes = <<>>
    /\ token_path = None
    /\ pair_bin_steps = None
    /\ hop_read_ok = None
    /\ versions = None
    /\ clock = None
    /\ deadline = 0
    /\ executor = <<>>
    /\ call = None
    /\ quoted_gas_price = None
    /\ gas_price = None
    /\ tx = None
    /\ chain_calls = <<>>
    /\ result = None
    /\ error = None
    /\ cmd_strategy = strategy
    /\ cmd_amount_in = None
    /\ wallet = None
    /\ transactions = <<>>
    /\ runs = <<>>
    /\ mempool = <<>>
    /\ race_log = <<>>
    /\ events = <<>>
    /\ deliveries = <<>>

SpecAmount == InitAmount /\ [][NextSwap]_vars

\* Dispatch and the executor, from every path and bin steps the Path Finder
\* and the optimizer can hand over.
ResolvedRoutes(from, to) ==
    {[path |-> <<from, to>>, bin_steps |-> <<b>>] : b \in PoolBinSteps}
    \cup (IF from # WNATIVE /\ to # WNATIVE
          THEN {[path |-> <<from, WNATIVE, to>>, bin_steps |-> <<b1, b2>>]
                  : b1 \in {25, 50}, b2 \in {25, 100}}
          ELSE {})

InitExec ==
    /\ strategy \in SwapStrategy
    /\ token_from \in {NATIVE, TOKEN_A}
    /\ token_to \in {NATIVE, TOKEN_B}
    /\ registry = [k \in PairKeys |-> [b \in PoolBinSteps |-> "absent"]]
    /\ amount_in = 1000000
    /\ max_slippage_percent = 1
    /\ latest_tx \in LatestTransactions
    /\ amount_out_min = AmountOutMin(amount_in, max_slippage_percent)
    /\ wnative_address = WNATIVE
    /\ actual_token_from = Substitute(token_from, wnative_address)
    /\ actual_token_to = Substitute(token_to, wnative_address)
    /\ pc = "dispatch"
    /\ direct_pair = None
    /\ first_pair = None
    /\ second_pair = None
    /\ available_bin_steps = {}
    /\ returned_by = None
    /\ probes = <<>>
    /\ \E route \in ResolvedRoutes(actual_token_from, actual_token_to) :
          /\ token_path = route.path
          /\ pair_bin_steps = route.bin_steps
    /\ hop_read_ok = None
    /\ versions = None
    /\ clock = None
    /\ deadline = 0
    /\ executor = <<>>
    /\ call = None
    /\ quoted_gas_price = None
    /\ gas_price = None
    /\ tx = None
    /\ chain_calls = <<>>
    /\ result = None
    /\ error = None
    /\ cmd_strategy = strategy
    /\ cmd_amount_in = None
    /\ wallet = None
    /\ transactions = <<>>
    /\ runs = <<>>
    /\ mempool = <<>>
    /\ race_log = <<>>
    /\ events = <<>>
    /\ deliveries = <<>>

NextExec ==
    \/ ExecuteStrategySwap_Dispatch
    \/ ReadGasPrice
    \/ BuildTransaction
    \/ EstimateGas
    \/ SignTransaction
    \/ SendRawTransaction

SpecExec == InitExec /\ [][NextExec]_vars

\* SpecHandler: the swap command handler, from the command to the record, over
\* a factory that holds no pool.
CommandStrategies == SwapStrategy \cup {"turbo", "FAST", ""}
CommandAmounts == {<<"1", "0", "0", "0", "0", "0", "0">>, <<"9", "0">>, <<"1", ".", "5">>}
Wallets == {None} \cup {[address |-> SENDER, is_active |-> a] : a \in BOOLEAN}

StoredTransaction(type, status, nonce_) == [transaction_type |-> type, transaction_hash |-> <<"0x", "cd34">>, transaction_status |-> status, gas |-> 46000, gas_price |-> BigMulDigit(GWEI, 25), nonce |-> nonce_]

\* the wallet's records before the command: approvals, confirmed or not
StoredTransactions ==
    {<<>>}
    \cup {<<StoredTransaction("GIVE_APPROVAL", s, n)>> : s \in TransactionStatus, n \in 0..MaxNonce}
    \cup {<<StoredTransaction("GIVE_APPROVAL", "CONFIRMED", n), StoredTransaction("REVOKE_APPROVAL", "PENDING", n + 1)>> : n \in 0..MaxNonce}

InitHandler ==
    /\ cmd_strategy \in CommandStrategies
    /\ cmd_amount_in \in CommandAmounts
    /\ wallet \in Wallets
    /\ transactions \in StoredTransactions
    /\ runs = <<>>
    /\ mempool = <<>>
    /\ race_log = <<>>
    /\ events = <<>>
    /\ deliveries = <<>>
    /\ token_from \in {NATIVE, TOKEN_A}
    /\ token_to \in {NATIVE, TOKEN_B}
    /\ registry = EmptyRegistry
    /\ max_slippage_percent = 1
    /\ strategy = None
    /\ amount_in = 0
    /\ latest_tx = None
    /\ amount_out_min = 0
    /\ wnative_address = None
    /\ actual_token_from = None
    /\ actual_token_to = None
    /\ pc = "handler"
    /\ direct_pair = None
    /\ first_pair = None
    /\ second_pair = None
    /\ available_bin_steps = {}
    /\ returned_by = None
    /\ probes = <<>>
    /\ token_path = None
    /\ pair_bin_steps = None
    /\ hop_read_ok = None
    /\ versions = None
    /\ clock = None
    /\ deadline = 0
    /\ executor = <<>>
    /\ call = None
    /\ quoted_gas_price = None
    /\ gas_price = None
    /\ tx = None
    /\ chain_calls = <<>>
    /\ result = None
    /\ error = None

NextHandler ==
    \/ ExecuteTraderjoeSwapHandler_Start
    \/ NextSwap
    \/ ReadGasPrice
    \/ BuildTransaction
    \/ EstimateGas
    \/ SignTransaction
    \/ SendRawTransaction
    \/ ExecuteTraderjoeSwapHandler_Record

SpecHandler == InitHandler /\ [][NextHandler]_vars

\* ------------------------------------------------------------------------
\* Concurrent executions of the handler for one wallet on one chain.  Every
\* await of the handler is a point at which another execution may run.  The
\* steps between the read of the previous transaction and the submission
\* touch only locals of the execution and are taken together.
\* ------------------------------------------------------------------------
Runs == {1, 2}

\* the commands of the concurrent executions, one per executor variant
RaceRequests ==
    {[strategy |-> FAST, token_from |-> NATIVE, token_to |-> TOKEN_B],
     [strategy |-> CHEAP, token_from |-> TOKEN_A, token_to |-> NATIVE],
     [strategy |-> SECURE, token_from |-> TOKEN_A, token_to |-> TOKEN_B]}

\* the variables of the single execution, which the concurrent ones leave alone
swapRunVars == <<registry, strategy, token_from, token_to, amount_in, max_slippage_percent, latest_tx, cmdVars, ledgerVars, routerVars, pc, lookupVars, fallbackVars, pathVars, pair_bin_steps, hop_read_ok, dispatchVars, execVars, error>>

\* the call an executor variant prepares for a direct path
ExecutorCall(request, latest_tx_, time_time) ==
    LET variant == ExecutorVariant(request.token_from, request.token_to)
        path == <<Substitute(request.token_from, WNATIVE), Substitute(request.token_to, WNATIVE)>>
        deadline_ == get_deadline(request.strategy, time_time)
        amount_out_min_ == AmountOutMin(1000000, 1)
    IN CASE variant = "execute_native_for_tokens" ->
                execute_native_for_tokens(amount_out_min_, path, <<STANDARD_FALLBACK>>, <<1>>, deadline_, RECIPIENT, latest_tx_, 1000000)
         [] variant = "execute_tokens_for_native" ->
                execute_tokens_for_native(1000000, amount_out_min_, path, <<STANDARD_FALLBACK>>, <<1>>, deadline_, RECIPIENT, latest_tx_)
         [] OTHER ->
                execute_tokens_for_tokens(1000000, amount_out_min_, path, <<STANDARD_FALLBACK>>, <<1>>, deadline_, RECIPIENT, latest_tx_)

\* the read of the previous transaction of a handler that waits until no
\* other execution for the wallet is in flight
RaceRead_locked(r) ==
    /\ runs[r].pc = "handler"
    /\ \A other \in Runs \ {r} : runs[other].pc \in {"handler", "handled", "raised"}
    /\ \E provided \in RepoProvides("get_latest_transaction_by_wallet_id") :
          IF ~provided THEN runs' = [runs EXCEPT ![r].pc = "raised"]
          ELSE runs' = [runs EXCEPT ![r].latest_tx = get_latest_transaction_by_wallet_id(transactions),
                                    ![r].pc = "swap"]
    /\ race_log' = Append(race_log, <<r, "read">>)
    /\ UNCHANGED <<mempool, transactions, swapRunVars>>

\* the handler up to the call of swap_*: the read of the previous transaction
RaceRead(r) ==
    /\ runs[r].pc = "handler"
    /\ \E provided \in RepoProvides("get_latest_transaction_by_wallet_id") :
          IF ~provided THEN runs' = [runs EXCEPT ![r].pc = "raised"]
          ELSE runs' = [runs EXCEPT ![r].latest_tx = get_latest_transaction_by_wallet_id(transactions),
                                    ![r].pc = "swap"]
    /\ race_log' = Append(race_log, <<r, "read">>)
    /\ UNCHANGED <<mempool, transactions, swapRunVars>>

\* the swap up to the signed transaction: route, call with its nonce, gas
\* price, build_transaction, estimate_gas, sign_transaction
RaceBuild(r) ==
    /\ runs[r].pc = "swap"
    /\ \/ \E quoted \in GasPriceQuotes, gas \in GasEstimates :
            LET time_time == CHOOSE t \in ClockReadings : t.ms = 0
                call_ == ExecutorCall(runs[r].request, runs[r].latest_tx, time_time)
                tx_ == DictSet(build_transaction(call_, SENDER, AdjustedGasPrice(quoted)), "gas", gas)
            IN runs' = [runs EXCEPT ![r].tx = tx_, ![r].pc = "send_raw_transaction"]
       \/ runs' = [runs EXCEPT ![r].pc = "raised"]
    /\ race_log' = Append(race_log, <<r, "build">>)
    /\ UNCHANGED <<mempool, transactions, swapRunVars>>

\* send_raw_transaction and the hash written to the transaction dict
RaceSend(r) ==
    /\ runs[r].pc = "send_raw_transaction"
    /\ \/ /\ mempool' = Append(mempool, runs[r].tx)
          /\ \E tx_hash \in TxHashes :
                runs' = [runs EXCEPT ![r].tx = DictSet(runs[r].tx, "txHash", <<"0x", tx_hash>>),
                                     ![r].pc = "returned"]
       \/ /\ runs' = [runs EXCEPT ![r].pc = "raised"]
          /\ UNCHANGED mempool
    /\ race_log' = Append(race_log, <<r, "send">>)
    /\ UNCHANGED <<transactions, swapRunVars>>

\* the handler after the swap returned: Transaction.create and add_transaction
RaceRecord(r) ==
    /\ runs[r].pc = "returned"
    /\ IF "TRADERJOE_SWAP" \notin TransactionType THEN
            /\ runs' = [runs EXCEPT ![r].pc = "raised"]
            /\ UNCHANGED transactions
       ELSE /\ transactions' = Append(transactions,
                    [transaction_type |-> "TRADERJOE_SWAP",
                     transaction_hash |-> runs[r].tx["txHash"],
                     transaction_status |-> "PENDING",
                     gas |-> runs[r].tx["gas"],
                     gas_price |-> runs[r].tx["gasPrice"],
                     nonce |-> runs[r].tx["nonce"]])
            /\ runs' = [runs EXCEPT ![r].pc = "handled"]
    /\ race_log' = Append(race_log, <<r, "record">>)
    /\ UNCHANGED <<mempool, swapRunVars>>

InitRace ==
    /\ runs \in [Runs -> {[pc |-> "handler", request |-> q, latest_tx |-> None, tx |-> None] : q \in RaceRequests}]
    /\ mempool = <<>>
    /\ race_log = <<>>
    /\ events = <<>>
    /\ deliveries = <<>>
    /\ transactions \in StoredTransactions
    /\ wallet = [address |-> SENDER, is_active |-> TRUE]
    /\ cmd_strategy = None
    /\ cmd_amount_in = None
    /\ token_from = None
    /\ token_to = None
    /\ registry = EmptyRegistry
    /\ max_slippage_percent = 1
    /\ strategy = None
    /\ amount_in = 0
    /\ latest_tx = None
    /\ amount_out_min = 0
    /\ wnative_address = None
    /\ actual_token_from = None
    /\ actual_token_to = None
    /\ pc = "concurrent"
    /\ direct_pair = None
    /\ first_pair = None
    /\ second_pair = None
    /\ available_bin_steps = {}
    /\ returned_by = None
    /\ probes = <<>>
    /\ token_path = None
    /\ pair_bin_steps = None
    /\ hop_read_ok = None
    /\ versions = None
    /\ clock = None
    /\ deadline = 0
    /\ executor = <<>>
    /\ call = None
    /\ quoted_gas_price = None
    /\ gas_price = None
    /\ tx = None
    /\ chain_calls = <<>>
    /\ result = None
    /\ error = None

NextRace ==
    \E r \in Runs :
        \/ RaceRead(r)
        \/ RaceBuild(r)
        \/ RaceSend(r)
        \/ RaceRecord(r)

SpecRace == InitRace /\ [][NextRace]_vars

\* SpecOptimizer: get_optimal_bin_steps on a path over the registry as it
\* stands when the optimizer reads it.  The factory owner may add pools and
\* set or clear ignoredForRouting after the path was built, so a hop of the
\* path may have an eligible pool or none.
OptimizerPaths(from, to) ==
    {<<from, to>>} \cup (IF from # WNATIVE /\ to # WNATIVE THEN {<<from, WNATIVE, to>>} ELSE {})

InitOptimizer ==
    /\ strategy \in SwapStrategy
    /\ token_from \in {TOKEN_A, WNATIVE}
    /\ token_to \in {TOKEN_B, WNATIVE}
    /\ registry \in Registries(HopKeys(token_from, token_to), MaxPools)
    /\ amount_in = 0
    /\ max_slippage_percent = 0
    /\ latest_tx = None
    /\ amount_out_min = 0
    /\ wnative_address = WNATIVE
    /\ actual_token_from = token_from
    /\ actual_token_to = token_to
    /\ pc = "get_optimal_bin_steps"
    /\ direct_pair = None
    /\ first_pair = None
    /\ second_pair = None
    /\ available_bin_steps = {}
    /\ returned_by = None
    /\ probes = <<>>
    /\ token_path \in OptimizerPaths(token_from, token_to)
    /\ pair_bin_steps = None
    /\ hop_read_ok = None
    /\ versions = None
    /\ clock = None
    /\ deadline = 0
    /\ executor = <<>>
    /\ call = None
    /\ quoted_gas_price = None
    /\ gas_price = None
    /\ tx = None
    /\ chain_calls = <<>>
    /\ result = None
    /\ error = None
    /\ cmd_strategy = strategy
    /\ cmd_amount_in = None
    /\ wallet = None
    /\ transactions = <<>>
    /\ runs = <<>>
    /\ mempool = <<>>
    /\ race_log = <<>>
    /\ events = <<>>
    /\ deliveries = <<>>

NextOptimizer == GetOptimalBinSteps

SpecOptimizer == InitOptimizer /\ [][NextOptimizer]_vars

\* ------------------------------------------------------------------------
\* Properties of the Path Finder and the Fee-Tier Optimizer (SpecRoute)
\* ------------------------------------------------------------------------
DirectPath == <<actual_token_from, actual_token_to>>
WnativePath == <<actual_token_from, wnative_address, actual_token_to>>

\* build_optimal_path was left by the exception of get_available_bin_steps
BuildOptimalPathRaised == pc = "raised" /\ error = RpcError("getAllBinSteps failed")

\* find_fallback_path read the catalog and returned
FallbackReturned == returned_by = "find_fallback_path"

HopEligible(i) == EligibleBinSteps(token_path[i], token_path[i + 1])

\* C1: when the best-pair lookup of the direct pair finds an eligible pool,
\* build_optimal_path returns [token_from, token_to] and no later stage runs,
\* whatever pools the legs over the wrapped-native token have.
C1_DirectPathPrecedence ==
    direct_pair # None =>
        /\ direct_pair[1] \in EligibleBinSteps(actual_token_from, actual_token_to)
        /\ token_path = DirectPath
        /\ returned_by = "find_direct_path"
        /\ first_pair = None /\ second_pair = None /\ probes = <<>>
        /\ ~BuildOptimalPathRaised

\* a direct pool was found while both legs over the wrapped-native token
\* have eligible pools too
C1_Witness ==
    /\ direct_pair # None
    /\ token_path = DirectPath
    /\ wnative_address \notin {actual_token_from, actual_token_to}
    /\ EligibleBinSteps(actual_token_from, wnative_address) # {}
    /\ EligibleBinSteps(wnative_address, actual_token_to) # {}

\* C2 as stated: for every hop with at least one eligible pool the bin step
\* returned is the greatest eligible one under cheap and the least eligible
\* one under fast and secure.
C2_MaxMinOfEligible ==
    pair_bin_steps # None =>
        \A i \in Hops(token_path) :
            HopEligible(i) # {} =>
                pair_bin_steps[i] = IF strategy = CHEAP THEN Max(HopEligible(i))
                                    ELSE Min(HopEligible(i))

\* C2 amended: under fast and secure the least eligible bin step is returned
\* when the hop's best-pair read succeeds, and 25 when that read fails.
C2_MaxMinOfEligibleWhenRead ==
    pair_bin_steps # None =>
        \A i \in Hops(token_path) :
            HopEligible(i) # {} =>
                pair_bin_steps[i] = IF strategy = CHEAP THEN Max(HopEligible(i))
                                    ELSE IF hop_read_ok[i] THEN Min(HopEligible(i))
                                    ELSE 25

\* bin steps were returned for a hop with two eligible pools, under cheap
\* and under another strategy whose read succeeded
C2_Witness ==
    /\ pair_bin_steps # None
    /\ \E i \in Hops(token_path) :
        /\ Cardinality(HopEligible(i)) >= 2
        /\ hop_read_ok[i]
        /\ pair_bin_steps[i] = IF strategy = CHEAP THEN Max(HopEligible(i))
                               ELSE Min(HopEligible(i))

ProbedBinSteps == [k \in 1..(Len(probes) \div 2) |-> probes[2 * k - 1].bin_step]
BothExist(k) == probes[2 * k - 1].exists /\ probes[2 * k].exists
IsAvailable(bin_step) == bin_step \in available_bin_steps
AvailableInOrder == SelectSeq(<<25, 50, 100, 20, 15>>, IsAvailable)
IsPrefix(s, t) == Len(s) <= Len(t) /\ \A i \in 1..Len(s) : s[i] = t[i]

\* C3: find_fallback_path probes the bin steps in the order 25, 50, 100, 20,
\* 15, only those of the catalog, both hops at the same bin step with
\* pair_exists, and returns the path over the wrapped-native token at the
\* first bin step where both hops exist, probing none after it.
C3_FallbackOrder ==
    FallbackReturned =>
        /\ Len(probes) % 2 = 0
        /\ \A k \in 1..(Len(probes) \div 2) :
            /\ probes[2 * k - 1].token_a = actual_token_from
            /\ probes[2 * k - 1].token_b = wnative_address
            /\ probes[2 * k].token_a = wnative_address
            /\ probes[2 * k].token_b = actual_token_to
            /\ probes[2 * k].bin_step = probes[2 * k - 1].bin_step
        /\ \A j \in 1..Len(probes) :
            probes[j].exists =>
                probes[j].bin_step \in EligibleBinSteps(probes[j].token_a, probes[j].token_b)
        /\ IsPrefix(ProbedBinSteps, AvailableInOrder)
        /\ \A k \in 1..(Len(probes) \div 2) :
            BothExist(k) => k = Len(probes) \div 2 /\ token_path = WnativePath
        /\ (\A k \in 1..(Len(probes) \div 2) : ~BothExist(k)) =>
                ProbedBinSteps = AvailableInOrder

\* the fallback returned at the second or a later bin step it probed, with
\* a bin step of the catalog left unprobed
C3_Witness ==
    /\ FallbackReturned
    /\ Len(probes) >= 4
    /\ BothExist(Len(probes) \div 2)
    /\ Len(ProbedBinSteps) < Len(AvailableInOrder)

\* C4: when the direct lookup finds nothing, the wrapped-native token is
\* neither endpoint and both leg lookups find a best pair, the path is
\* [token_from, wrapped-native, token_to], the fallback stage does not run,
\* and under cheap the bin steps are the greatest eligible one of each leg.
C4_IntermediaryPath ==
    ( /\ direct_pair = None
      /\ wnative_address \notin {actual_token_from, actual_token_to}
      /\ first_pair # None
      /\ second_pair # None ) =>
        /\ token_path = WnativePath
        /\ returned_by = "find_intermediary_path"
        /\ probes = <<>>
        /\ ~BuildOptimalPathRaised
        /\ (strategy = CHEAP /\ pair_bin_steps # None) =>
              pair_bin_steps =
                  << Max(EligibleBinSteps(actual_token_from, wnative_address)),
                     Max(EligibleBinSteps(wnative_address, actual_token_to)) >>

\* cheap bin steps of an intermediary path, one leg with two eligible pools
C4_Witness ==
    /\ direct_pair = None
    /\ first_pair # None
    /\ second_pair # None
    /\ strategy = CHEAP
    /\ pair_bin_steps # None
    /\ Cardinality(EligibleBinSteps(actual_token_from, wnative_address)) >= 2

\* C5: when the direct lookup, both leg lookups and every fallback probe
\* find nothing, build_optimal_path returns [token_from, token_to] and
\* raises no exception.
C5_NaivePathNoException ==
    ( /\ pc \notin {"execute_strategy_swap", "find_direct_path",
                    "find_intermediary_path", "find_fallback_path"}
      /\ direct_pair = None
      /\ first_pair = None
      /\ second_pair = None
      /\ \A j \in 1..Len(probes) : ~probes[j].exists ) =>
        /\ token_path = DirectPath
        /\ ~BuildOptimalPathRaised

\* ------------------------------------------------------------------------
\* Router Facade and Swap Executor properties
\* ------------------------------------------------------------------------

\* C6: a NATIVE endpoint is replaced by the wrapped-native address before
\* build_optimal_path is called, and NATIVE never appears in the token path
\* handed to the on-chain call, for every combination of endpoints and
\* every registry.
C6_NativeSubstituted ==
    /\ pc = "find_direct_path" =>
        /\ actual_token_from = (IF token_from = NATIVE THEN WNATIVE ELSE token_from)
        /\ actual_token_to = (IF token_to = NATIVE THEN WNATIVE ELSE token_to)
        /\ NATIVE \notin {actual_token_from, actual_token_to}
    /\ token_path # None => NATIVE \notin SeqToSet(token_path)
    /\ call # None =>
        /\ NATIVE \notin SeqToSet(CallPath(call)[3])
        /\ CallPath(call)[3][1] = (IF token_from = NATIVE THEN WNATIVE ELSE token_from)
        /\ Last(CallPath(call)[3]) = (IF token_to = NATIVE THEN WNATIVE ELSE token_to)

C6_Witness ==
    /\ token_from = NATIVE
    /\ token_to = TOKEN_B
    /\ call # None
    /\ CallPath(call)[3] = <<WNATIVE, TOKEN_B>>
    /\ direct_pair # None

\* C7: exactly one executor variant is invoked per call, chosen from the
\* endpoints of the request as they were before the substitution:
\* native-for-tokens for NATIVE -> token, tokens-for-native for token -> NATIVE,
\* tokens-for-tokens otherwise, whatever the strategy and the path.
C7_OneExecutorVariant ==
    /\ Len(executor) <= 1
    /\ (executor = <<>>) <=> (call = None)
    /\ pc = "gas_price" => Len(executor) = 1
    /\ executor # <<>> =>
        /\ (token_from = NATIVE /\ token_to # NATIVE) =>
              /\ executor[1] = "execute_native_for_tokens"
              /\ call.function = "swapExactNATIVEForTokens"
        /\ (token_from # NATIVE /\ token_to = NATIVE) =>
              /\ executor[1] = "execute_tokens_for_native"
              /\ call.function = "swapExactTokensForNATIVE"
        /\ (token_from # NATIVE /\ token_to # NATIVE) =>
              /\ executor[1] = "execute_tokens_for_tokens"
              /\ call.function = "swapExactTokensForTokens"
        /\ (token_from = NATIVE /\ token_to = NATIVE) =>
              /\ executor[1] = "execute_tokens_for_tokens"
              /\ call.function = "swapExactTokensForTokens"

C7_Witness ==
    /\ token_from = TOKEN_A
    /\ token_to = NATIVE
    /\ executor = <<"execute_tokens_for_native">>
    /\ strategy = CHEAP
    /\ Len(token_path) = 2

\* C8: every transaction an executor variant builds has the nonce of the
\* supplied previous transaction plus one, and nonce 0 when none is
\* supplied, in all three variants.
C8_NonceContinuity ==
    LET expected == IF latest_tx # None THEN latest_tx.nonce + 1 ELSE 0
    IN /\ call # None => call.nonce = expected
       /\ tx # None => tx["nonce"] = expected

C8_Witness ==
    /\ executor = <<"execute_tokens_for_tokens">>
    /\ latest_tx # None
    /\ result # None
    /\ result["nonce"] = latest_tx.nonce + 1

\* C9: a failure of gas estimation, signing or submission in any variant
\* raises BlockchainTransactionError with the underlying error text in its
\* message and the hash marker "unknown"; no other error leaves these steps.
C9_FailureWrapped ==
    ( /\ pc = "raised"
      /\ chain_calls # <<>>
      /\ Last(chain_calls) \in {"estimate_gas", "sign_transaction", "send_raw_transaction"} ) =>
        /\ error.type = "BlockchainTransactionError"
        /\ error.msg = <<"Transaction ", "unknown", " failed: ",
                         CASE Last(chain_calls) = "estimate_gas" -> "estimate_gas failed"
                           [] Last(chain_calls) = "sign_transaction" -> "sign_transaction failed"
                           [] OTHER -> "send_raw_transaction failed">>
        /\ error.loc = <<"blockchain", "transaction", "unknown">>

C9_Witness ==
    /\ pc = "raised"
    /\ chain_calls # <<>>
    /\ Last(chain_calls) = "sign_transaction"
    /\ error.type = "BlockchainTransactionError"
    /\ executor = <<"execute_native_for_tokens">>

\* C10: an executor variant either raises or returns an artifact holding
\* hash, gas, gas price and nonce; after a failure at any step the caller
\* has no artifact.
C10_ArtifactOrRaise ==
    /\ result # None =>
        /\ pc = "returned"
        /\ error = None
        /\ {"txHash", "gas", "gasPrice", "nonce"} \subseteq DOMAIN result
    /\ pc = "returned" => result # None
    /\ pc = "raised" => (result = None /\ error # None)

C10_Witness ==
    /\ pc = "returned"
    /\ executor = <<"execute_native_for_tokens">>
    /\ {"txHash", "gas", "gasPrice", "nonce", "value"} \subseteq DOMAIN result

\* ------------------------------------------------------------------------
\* Registry failures and ignored pools
\* ------------------------------------------------------------------------
\* C11: for every pattern of failing factory reads and each strategy,
\* build_optimal_path followed by get_optimal_bin_steps completes with a
\* path and a fee-tier sequence and raises no error.
C11_RegistryFailuresAbsorbed ==
    /\ pc # "raised"
    /\ error = None
    /\ pc = "dispatch" => (token_path # None /\ pair_bin_steps # None)

\* the pool a hop and its chosen fee tier designate
DesignatedPool(i) == registry[PairKey(token_path[i], token_path[i + 1])][pair_bin_steps[i]]

\* C12: for every registry, strategy and hop of the path, the pool that the
\* hop's token pair and the fee tier chosen for the hop designate is not a
\* pool flagged ignored_for_routing.
C12_IgnoredNeverSelected ==
    pair_bin_steps # None =>
        \A i \in Hops(token_path) :
            pair_bin_steps[i] \in PoolBinSteps => DesignatedPool(i) # "ignored"

\* ------------------------------------------------------------------------
\* Numerical properties
\* ------------------------------------------------------------------------
\* the amount_out_min argument of a prepared call
CallAmountOutMin(call_) == call_.args[Len(call_.args) - 3]

\* C13: the amount_out_min handed to the executor is
\* floor(amount_in * (1 - max_slippage_percent / 100)); it lies between 0
\* and amount_in, and amount_in 1000000 with slippage 1 gives 990000.
C13_AmountOutMinFloor ==
    call # None =>
        /\ CallAmountOutMin(call) = (amount_in * (100 - max_slippage_percent)) \div 100
        /\ 0 <= CallAmountOutMin(call)
        /\ CallAmountOutMin(call) <= amount_in
        /\ (amount_in = 1000000 /\ max_slippage_percent = 1) => CallAmountOutMin(call) = 990000

\* floor(11 * quoted / 10)
ElevenTenths(quoted) == BigDivInt(BigMulDigit(quoted, 11), 10).q

\* C14: in every executor variant the gas price on the transaction is
\* floor(11 * quoted / 10) of the quoted gas price, for every quote.
C14_GasPriceFloor ==
    tx # None => tx["gasPrice"] = ElevenTenths(quoted_gas_price)

\* the deadline argument of a prepared call
CallDeadline(call_) == call_.args[Len(call_.args)]

\* C15: get_deadline returns the integer clock reading plus 1200 seconds
\* for fast and plus 1800 seconds for cheap and for secure, and the router
\* hands that value to the executor.
C15_Deadline ==
    call # None =>
        /\ strategy = FAST => deadline = clock.s + 1200
        /\ strategy \in {CHEAP, SECURE} => deadline = clock.s + 1800
        /\ CallDeadline(call) = deadline

C15_Witness ==
    /\ call # None
    /\ strategy = SECURE
    /\ clock.ms = 999
    /\ CallDeadline(call) = 1700001845

\* ------------------------------------------------------------------------
\* Properties of the swap command handler (SpecHandler)
\* ------------------------------------------------------------------------
\* no read of the router or the factory, no step of the executor
NoChainInteraction ==
    /\ wnative_address = None
    /\ direct_pair = None /\ first_pair = None /\ second_pair = None
    /\ available_bin_steps = {} /\ probes = <<>>
    /\ hop_read_ok = None
    /\ quoted_gas_price = None /\ chain_calls = <<>>
    /\ tx = None /\ result = None

\* C16: a swap command whose strategy is none of fast, cheap and secure is
\* rejected with an error before any chain interaction: no RPC read is made,
\* no transaction is submitted and no transaction record is added.
C16_InvalidStrategyRejected ==
    cmd_strategy \notin SwapStrategy =>
        /\ pc \in {"handler", "raised"}
        /\ pc = "raised" => error # None /\ error.type \in {"ValueError", "AttributeError"}
        /\ NoChainInteraction
        /\ transactions \in StoredTransactions

C16_Witness ==
    /\ cmd_strategy = "turbo"
    /\ wallet # None /\ wallet.is_active
    /\ pc = "raised"
    /\ error = ValueError("Invalid strategy")
    /\ NoChainInteraction

\* the transaction type that names an executor variant
SwapTransactionType(variant) ==
    CASE variant = "execute_native_for_tokens" -> "SWAP_NATIVE_TO_TOKEN"
      [] variant = "execute_tokens_for_native" -> "SWAP_TOKEN_TO_NATIVE"
      [] OTHER -> "SWAP_TOKEN_TO_TOKEN"

\* C17: for every swap whose submission succeeded, the handler records
\* exactly one Transaction: status PENDING, the swap type that matches the
\* executor variant, and the hash, gas, gas price and nonce of the built
\* transaction; a submitted swap is never left unrecorded.
C17_SubmittedSwapRecorded ==
    (result # None /\ pc # "returned") =>
        /\ pc = "handled"
        /\ Len(transactions) >= 1
        /\ SubSeq(transactions, 1, Len(transactions) - 1) \in StoredTransactions
        /\ LET recorded == Last(transactions)
           IN /\ recorded.transaction_status = "PENDING"
              /\ recorded.transaction_type = SwapTransactionType(executor[1])
              /\ recorded.transaction_hash = result["txHash"]
              /\ recorded.gas = result["gas"]
              /\ recorded.gas_price = result["gasPrice"]
              /\ recorded.nonce = result["nonce"]

\* ------------------------------------------------------------------------
\* Concurrent executions (SpecRace)
\* ------------------------------------------------------------------------
\* C18: nothing serialises the executions of one wallet: neither the read of
\* the previous transaction nor the submission waits for another execution,
\* and two executions that started from the same previous transaction build
\* transactions with the same nonce, which both reach the chain.
C18_NoNonceLock ==
    \A r1 \in Runs :
        /\ runs[r1].pc = "handler" => ENABLED RaceRead(r1)
        /\ runs[r1].pc = "send_raw_transaction" => ENABLED RaceSend(r1)
        /\ \A r2 \in Runs \ {r1} :
              (runs[r1].tx # None /\ runs[r2].tx # None /\ runs[r1].latest_tx = runs[r2].latest_tx)
                  => runs[r1].tx["nonce"] = runs[r2].tx["nonce"]

C18_Witness ==
    /\ race_log = <<<<1, "read">>, <<2, "read">>, <<1, "build">>, <<2, "build">>, <<1, "send">>, <<2, "send">>>>
    /\ runs[1].latest_tx = runs[2].latest_tx
    /\ Len(mempool) = 2
    /\ mempool[1]["from"] = mempool[2]["from"]
    /\ mempool[1]["nonce"] = mempool[2]["nonce"]

\* ------------------------------------------------------------------------
\* Order of the chain interactions of the executor (SpecExec)
\* ------------------------------------------------------------------------
\* the steps of an executor variant, in the order of the source
ExecutorSteps == <<"gas_price", "build_transaction", "estimate_gas", "sign_transaction", "send_raw_transaction">>

\* the keys of the transaction dict that build_transaction fills
BuiltKeys == {"from", "nonce", "chainId", "gasPrice", "to", "data"}

\* C19: in every executor variant the chain interactions occur in the order
\* gas-price read, gas estimation against the fully built call, signing,
\* submission, hash recording; submission is attempted only after estimation
\* and signing succeeded, and the hash is written only after the submission
\* returned.
C19_ChainCallOrder ==
    /\ [](/\ IsPrefix(chain_calls, ExecutorSteps)
          /\ "estimate_gas" \in SeqToSet(chain_calls) =>
                /\ BuiltKeys \subseteq DOMAIN tx
                /\ tx["gasPrice"] = gas_price
                /\ tx["nonce"] = call.nonce
                /\ tx["data"] = <<call.function, call.args>>
          /\ "txHash" \in DOMAIN tx =>
                /\ Last(chain_calls) = "send_raw_transaction"
                /\ pc = "returned")
    /\ [][(chain_calls' # chain_calls /\ Last(chain_calls') = "send_raw_transaction") =>
            /\ pc = "send_raw_transaction"
            /\ error = None
            /\ Last(chain_calls) = "sign_transaction"
            /\ "gas" \in DOMAIN tx]_vars

C19_Witness ==
    /\ pc = "returned"
    /\ executor = <<"execute_tokens_for_native">>
    /\ chain_calls = ExecutorSteps
    /\ "txHash" \in DOMAIN tx
    /\ "gas" \in DOMAIN tx

\* ------------------------------------------------------------------------
\* No retry (SpecHandler)
\* ------------------------------------------------------------------------
\* the positions of the log of chain interactions at which a raw transaction
\* was submitted
Submissions == {i \in 1..Len(chain_calls) : chain_calls[i] = "send_raw_transaction"}

\* the reads of the router and the factory and the steps of the executor
chainVars == <<wnative_address, lookupVars, fallbackVars, hop_read_ok, quoted_gas_price, chain_calls, tx>>

\* C20: a swap_fast / swap_cheap / swap_secure call submits at most one raw
\* transaction, exactly one when it returns an artifact, and issues no chain
\* call after a chain call failed: the failure ends the swap with an error.
C20_NoRetry ==
    /\ [](/\ Cardinality(Submissions) <= 1
          /\ result # None => Cardinality(Submissions) = 1
          /\ \A i, j \in 1..Len(chain_calls) : chain_calls[i] = chain_calls[j] => i = j
          /\ error # None => pc = "raised")
    /\ [][error # None => UNCHANGED <<chainVars, result, error, pc>>]_vars

C20_Witness ==
    /\ result # None
    /\ strategy = CHEAP
    /\ Submissions = {5}
    /\ "txHash" \in DOMAIN result

\* ------------------------------------------------------------------------
\* Shape of the token path (SpecRoute)
\* ------------------------------------------------------------------------
\* the path that find_fallback_path returns when its loop found nothing
NaivePathReturned == FallbackReturned /\ Len(token_path) = 2

\* C21: every token path returned by build_optimal_path has, for each pair
\* of consecutive tokens, at least one eligible pool (non-zero address, not
\* ignored for routing) in the registry.
C21_EveryHopEligible ==
    token_path # None => \A i \in Hops(token_path) : HopEligible(i) # {}

\* C21, amended: every token path returned by build_optimal_path, other than
\* the two-token path find_fallback_path returns after its loop found no
\* route, has at least one eligible pool for each pair of consecutive tokens.
C21_EveryHopEligibleUnlessNaive ==
    (token_path # None /\ ~NaivePathReturned) =>
        \A i \in Hops(token_path) : HopEligible(i) # {}

C21_Witness ==
    /\ FallbackReturned
    /\ token_path = WnativePath
    /\ \A i \in Hops(token_path) : HopEligible(i) # {}
    /\ first_pair = None

\* C22: every token path returned by build_optimal_path, for any registry
\* and strategy, has two or three tokens, begins with the substituted
\* token_from and ends with the substituted token_to; the middle token of a
\* three-token path is the wrapped-native address.
C22_PathShape ==
    token_path # None =>
        /\ Len(token_path) \in {2, 3}
        /\ token_path[1] = (IF token_from = NATIVE THEN wnative_address ELSE token_from)
        /\ Last(token_path) = (IF token_to = NATIVE THEN wnative_address ELSE token_to)
        /\ Len(token_path) = 3 => token_path[2] = wnative_address

C22_Witness ==
    /\ returned_by = "find_intermediary_path"
    /\ token_path = <<TOKEN_A, WNATIVE, TOKEN_B>>
    /\ token_from = TOKEN_A
    /\ token_to = TOKEN_B

\* ------------------------------------------------------------------------
\* The path struct of the prepared call (SpecSwap)
\* ------------------------------------------------------------------------
\* C23: in every call the Router Facade builds, the path struct is (fee
\* tiers, versions, token path); the fee tiers and the versions each have
\* len(token path) - 1 entries and every version is 1, whatever the strategy
\* and the path found.
C23_PathStruct ==
    call # None =>
        LET path_struct == CallPath(call)
        IN /\ Len(path_struct) = 3
           /\ path_struct[3] = token_path
           /\ path_struct[1] = pair_bin_steps
           /\ DOMAIN path_struct[1] = 1..(Len(token_path) - 1)
           /\ DOMAIN path_struct[2] = 1..(Len(token_path) - 1)
           /\ \A i \in DOMAIN path_struct[1] : path_struct[1][i] \in BinSteps
           /\ \A i \in DOMAIN path_struct[2] : path_struct[2][i] = 1

C23_Witness ==
    /\ call # None
    /\ Len(token_path) = 3
    /\ strategy = FAST
    /\ CallPath(call) = <<pair_bin_steps, <<1, 1>>, <<TOKEN_A, WNATIVE, TOKEN_B>>>>
    /\ pair_bin_steps[1] # pair_bin_steps[2]

\* ------------------------------------------------------------------------
\* Defaults of the Fee-Tier Optimizer (SpecOptimizer)
\* ------------------------------------------------------------------------
\* C24: for a hop without eligible pool get_optimal_bin_steps returns 50
\* under cheap and 25 under fast and secure, and the default of one hop
\* leaves the bin step of every other hop what its own pools make it.
C24_DefaultPerHop ==
    pair_bin_steps # None =>
        \A i \in Hops(token_path) :
            /\ HopEligible(i) = {} =>
                  pair_bin_steps[i] = (IF strategy = CHEAP THEN 50 ELSE 25)
            /\ (HopEligible(i) # {} /\ hop_read_ok[i]) =>
                  pair_bin_steps[i] = (IF strategy = CHEAP THEN Max(HopEligible(i))
                                       ELSE Min(HopEligible(i)))

C24_Witness ==
    /\ pair_bin_steps # None
    /\ strategy = CHEAP
    /\ Len(token_path) = 3
    /\ HopEligible(1) = {}
    /\ HopEligible(2) = {25, 100}
    /\ pair_bin_steps = <<50, 100>>

\* ------------------------------------------------------------------------
\* The previous transaction of a swap (SpecHandler)
\* ------------------------------------------------------------------------
\* C25: for an active wallet the swap handler reads the previous transaction
\* with the lookup approve_token_handler uses, at the start of the execution:
\* the read succeeds, and what the handler holds for the Router Facade from
\* then on is the last CONFIRMED transaction of the wallet, or None.
C25_LastConfirmedHandedOver ==
    (pc # "handler" /\ wallet # None /\ wallet.is_active) =>
        /\ ~(error # None /\ error.type = "AttributeError")
        /\ latest_tx = get_last_confirmed_transaction(transactions)

C27_DistinctEndpointsAtExecutor ==
    executor # <<>> =>
        /\ Last(executor) = "execute_tokens_for_tokens" => (token_from # NATIVE /\ token_to # NATIVE)
        /\ actual_token_from # actual_token_to

\* ------------------------------------------------------------------------
\* Approvals and the tracking of recorded transactions, for one wallet on
\* one chain, one handler after another (SpecLedger).  A transaction is
\* known by its position in `transactions`.
\* ------------------------------------------------------------------------
\* approvals of a behaviour
MaxApprovals == 3
\* deliveries of TransactionCreated of a behaviour
MaxDeliveries == 3

SPENDER == "0xSpender"

\* ERC20Protocol.approve that takes the nonce of the previous transaction
approve_reused_nonce(spender, amount, latest_tx_) ==
    [function |-> "approve",
     args |-> <<spender, amount>>,
     nonce |-> IF latest_tx_ # None THEN latest_tx_.nonce ELSE 0]

\* ERC20Protocol.approve: the function, its arguments and the nonce it hands
\* to _build_and_send_transaction
approve(spender, amount, latest_tx_) ==
    [function |-> "approve",
     args |-> <<spender, amount>>,
     nonce |-> IF latest_tx_ # None THEN latest_tx_.nonce + 1 ELSE 0]

\* _build_and_send_transaction when every chain call succeeds: the
\* transaction dict it returns
_build_and_send_transaction(call_, sender, quoted, gas, tx_hash) ==
    [k \in {"from", "nonce", "chainId", "gasPrice", "to", "data", "gas", "txHash"} |->
        CASE k = "from" -> sender
          [] k = "nonce" -> call_.nonce
          [] k = "chainId" -> CHAIN_ID
          [] k = "gasPrice" -> AdjustedGasPrice(quoted)
          [] k = "to" -> TOKEN_A
          [] k = "gas" -> gas
          [] k = "txHash" -> <<"0x", tx_hash>>
          [] OTHER -> <<call_.function, call_.args>>]

\* Transaction.create: the record and the event it raises
Transaction_create(transaction_id, type, hash, status, gas, gas_price_, nonce_) ==
    [transaction |-> [transaction_type |-> type, transaction_hash |-> hash,
                      transaction_status |-> status, gas |-> gas, gas_price |-> gas_price_,
                      nonce |-> nonce_, block_number |-> None, gas_used |-> None],
     event |-> [type |-> "TransactionCreated", transaction_id |-> transaction_id]]

\* Transaction.confirm
confirm(transaction, transaction_id, block_number, gas_used) ==
    [transaction |-> [transaction EXCEPT !.transaction_status = "CONFIRMED",
                                         !.block_number = <<block_number>>,
                                         !.gas_used = <<gas_used>>],
     events |-> <<[type |-> "TransactionConfirmed", transaction_id |-> transaction_id]>>]

\* Transaction.fail
fail(transaction, transaction_id, error_message) ==
    [transaction |-> [transaction EXCEPT !.transaction_status = "FAILED"],
     events |-> <<[type |-> "TransactionFailed", transaction_id |-> transaction_id]>>]

\* what wait_for_transaction_receipt gives: a receipt, or TimeExhausted
Receipts == {[status |-> st, blockNumber |-> 7, gasUsed |-> 46000] : st \in {0, 1}}
TrackOutcomes == {[kind |-> "receipt", receipt |-> r] : r \in Receipts} \cup {[kind |-> "TimeExhausted", receipt |-> None]}
NotTracked == [kind |-> "not tracked", receipt |-> None]

\* the body of handle_transaction_created that tracks every transaction,
\* whatever its status
handle_transaction_created_any_status(transaction, transaction_id, outcome) ==
    IF outcome.kind = "receipt" THEN
        IF outcome.receipt.status = 1
        THEN confirm(transaction, transaction_id, outcome.receipt.blockNumber, outcome.receipt.gasUsed)
        ELSE fail(transaction, transaction_id, "Transaction reverted on blockchain")
    ELSE fail(transaction, transaction_id, "Error occurred while tracking transaction")

\* the body of handle_transaction_created for a transaction that was found
\* and whose chain exists: the transaction as it leaves and the events raised.
\* outcome is what track_transaction gives when it is called.
handle_transaction_created(transaction, transaction_id, outcome) ==
    IF transaction.transaction_status # "PENDING"
    THEN [transaction |-> transaction, events |-> <<>>]
    ELSE IF outcome.kind = "receipt" THEN
        IF outcome.receipt.status = 1
        THEN confirm(transaction, transaction_id, outcome.receipt.blockNumber, outcome.receipt.gasUsed)
        ELSE fail(transaction, transaction_id, "Transaction reverted on blockchain")
    ELSE fail(transaction, transaction_id, "Error occurred while tracking transaction")

ledgerFrame == <<registry, strategy, token_from, token_to, amount_in, max_slippage_percent,
                 latest_tx, cmdVars, raceVars, routerVars, pc, lookupVars, fallbackVars,
                 pathVars, pair_bin_steps, hop_read_ok, dispatchVars, execVars>>

\* approve_token_handler, from the wallet lookup to add_transaction; an
\* exception leaves the unit of work, which rolls back
ApproveTokenHandler ==
    /\ pc = "serial"
    /\ Len(transactions) < MaxApprovals
    /\ IF wallet = None THEN
            /\ error' = ValueError("Wallet not found for user")
            /\ UNCHANGED <<transactions, events>>
       ELSE IF ~wallet.is_active THEN
            /\ error' = ValueError("Wallet is not active")
            /\ UNCHANGED <<transactions, events>>
       ELSE \E token_found \in BOOLEAN :
            IF ~token_found THEN
                 /\ error' = ValueError("Token not found")
                 /\ UNCHANGED <<transactions, events>>
            ELSE LET latest_tx_ == get_last_confirmed_transaction(transactions)
                     call_ == approve(SPENDER, 1000000, latest_tx_)
                 IN \/ \E tx_hash \in TxHashes :
                          LET tx_ == _build_and_send_transaction(call_, wallet.address,
                                         BigMulDigit(GWEI, 25), 46000, tx_hash)
                              created == Transaction_create(Len(transactions) + 1, "GIVE_APPROVAL",
                                             tx_["txHash"], "PENDING", tx_["gas"], tx_["gasPrice"], tx_["nonce"])
                          IN IF ~IsTransactionHash(tx_["txHash"]) THEN
                                  /\ error' = ValueError("String should match pattern '^0x[a-fA-F0-9]{64}$'")
                                  /\ UNCHANGED <<transactions, events>>
                             ELSE /\ transactions' = Append(transactions, created.transaction)
                                  /\ events' = Append(events, created.event)
                                  /\ error' = None
                    \/ /\ error' = BlockchainTransactionError_from_error("unknown", "approve failed")
                       /\ UNCHANGED <<transactions, events>>
    /\ UNCHANGED <<deliveries, ledgerFrame>>

\* handle_transaction_created for a delivery of the TransactionCreated event
\* of a recorded transaction.  The broker may deliver an event again.  The
\* chain of a recorded transaction exists: the approval read it, and no
\* operation removes a chain.
HandleTransactionCreated ==
    /\ pc = "serial"
    /\ Len(deliveries) < MaxDeliveries
    /\ \E i \in 1..Len(events) :
        /\ events[i].type = "TransactionCreated"
        /\ LET transaction_id == events[i].transaction_id
           IN IF transaction_id \notin DOMAIN transactions THEN
                   /\ error' = ValueError("Transaction not found for id")
                   /\ UNCHANGED <<transactions, events, deliveries>>
              ELSE \E outcome \in TrackOutcomes :
                   LET tx_ == transactions[transaction_id]
                       handled == handle_transaction_created(tx_, transaction_id, outcome)
                   IN /\ transactions' = [transactions EXCEPT ![transaction_id] = handled.transaction]
                      /\ events' = events \o handled.events
                      /\ deliveries' = Append(deliveries,
                            [transaction_id |-> transaction_id,
                             outcome |-> IF tx_.transaction_status = "PENDING" THEN outcome ELSE NotTracked])
                      /\ error' = None
    /\ UNCHANGED ledgerFrame

InitLedger ==
    /\ runs = <<>>
    /\ mempool = <<>>
    /\ race_log = <<>>
    /\ events = <<>>
    /\ deliveries = <<>>
    /\ transactions = <<>>
    /\ wallet \in Wallets
    /\ cmd_strategy = None
    /\ cmd_amount_in = None
    /\ token_from = None
    /\ token_to = None
    /\ registry = EmptyRegistry
    /\ max_slippage_percent = 1
    /\ strategy = None
    /\ amount_in = 0
    /\ latest_tx = None
    /\ amount_out_min = 0
    /\ wnative_address = None
    /\ actual_token_from = None
    /\ actual_token_to = None
    /\ pc = "serial"
    /\ direct_pair = None
    /\ first_pair = None
    /\ second_pair = None
    /\ available_bin_steps = {}
    /\ returned_by = None
    /\ probes = <<>>
    /\ token_path = None
    /\ pair_bin_steps = None
    /\ hop_read_ok = None
    /\ versions = None
    /\ clock = None
    /\ deadline = 0
    /\ executor = <<>>
    /\ call = None
    /\ quoted_gas_price = None
    /\ gas_price = None
    /\ tx = None
    /\ chain_calls = <<>>
    /\ result = None
    /\ error = None

NextLedger ==
    \/ ApproveTokenHandler
    \/ HandleTransactionCreated

SpecLedger == InitLedger /\ [][NextLedger]_vars

Nonces(transactions_) == [i \in DOMAIN transactions_ |-> transactions_[i].nonce]
DistinctNonces(transactions_) ==
    \A i, j \in DOMAIN transactions_ : i # j => transactions_[i].nonce # transactions_[j].nonce
AllConfirmed(transactions_) ==
    \A i \in DOMAIN transactions_ : transactions_[i].transaction_status = "CONFIRMED"

\* C28: after approvals executed strictly one after another for one wallet
\* and chain, no two recorded transactions carry the same nonce, whether or
\* not the earlier ones have been confirmed.
C28_DistinctNonces == DistinctNonces(transactions)

\* C28 (amended): an approval executed when every recorded transaction of the
\* wallet and chain is CONFIRMED and their nonces differ records a nonce none
\* of them carries, the nonce of the last one plus one.
C28_FreshNonceAfterConfirmation ==
    [][(Len(transactions') = Len(transactions) + 1
            /\ AllConfirmed(transactions) /\ DistinctNonces(transactions))
        => /\ DistinctNonces(transactions')
           /\ Last(transactions').nonce = Len(transactions)]_vars

C28_Witness ==
    /\ Len(transactions) = 3
    /\ transactions[1].transaction_status = "CONFIRMED"
    /\ transactions[2].transaction_status = "CONFIRMED"
    /\ Nonces(transactions) = <<0, 1, 2>>

\* C29: handle_transaction_created changes a transaction only while it is
\* PENDING: it becomes CONFIRMED, with the block number and the gas used of
\* the receipt and a TransactionConfirmed event, when the receipt status is
\* 1, and FAILED with a TransactionFailed event otherwise, a tracking error
\* included.  A delivery for a CONFIRMED or FAILED transaction leaves the
\* record as it is and raises no event, and no step changes the record of
\* another transaction.
C29_OnlyPendingTracked ==
    [][\A i \in DOMAIN transactions :
          LET before == transactions[i]
              after == transactions'[i]
              tracked == /\ deliveries' # deliveries
                         /\ Last(deliveries').transaction_id = i
                         /\ before.transaction_status = "PENDING"
          IN IF tracked THEN
                  LET outcome == Last(deliveries').outcome
                      succeeded == outcome.kind = "receipt" /\ outcome.receipt.status = 1
                  IN /\ after.transaction_status = (IF succeeded THEN "CONFIRMED" ELSE "FAILED")
                     /\ events' = Append(events,
                            [type |-> IF succeeded THEN "TransactionConfirmed" ELSE "TransactionFailed",
                             transaction_id |-> i])
                     /\ IF succeeded
                        THEN /\ after.block_number = <<outcome.receipt.blockNumber>>
                             /\ after.gas_used = <<outcome.receipt.gasUsed>>
                        ELSE /\ after.block_number = before.block_number
                             /\ after.gas_used = before.gas_used
             ELSE /\ after = before
                  /\ \A k \in (Len(events) + 1)..Len(events') : events'[k].transaction_id # i]_vars

C29_Witness ==
    /\ Len(deliveries) = 2
    /\ deliveries[1].transaction_id = 1 /\ deliveries[1].outcome.kind = "receipt"
    /\ deliveries[2] = [transaction_id |-> 1, outcome |-> NotTracked]
    /\ transactions[1].transaction_status = "CONFIRMED"
    /\ transactions[1].block_number = <<7>>
    /\ events = <<[type |-> "TransactionCreated", transaction_id |-> 1],
                  [type |-> "TransactionConfirmed", transaction_id |-> 1]>>

\* ------------------------------------------------------------------------
\* The path and the strategy (SpecRoute)
\* ------------------------------------------------------------------------
\* the chain reads of the first two stages gave what this call observed
ReadsAsObserved(rpc_ok, ok1, ok2) ==
    /\ find_direct_path(actual_token_from, actual_token_to, rpc_ok).best_pair = direct_pair
    /\ returned_by # "find_direct_path" =>
          LET found == find_intermediary_path(actual_token_from, actual_token_to,
                                              wnative_address, strategy, ok1, ok2)
          IN found.first_pair = first_pair /\ found.second_pair = second_pair

\* C30: for the same registry, token pair, wrapped-native address and chain
\* reads, build_optimal_path returns for each of fast, cheap and secure the
\* token path it returned for the strategy of the call.
C30_StrategyIndependentPath ==
    pc = "get_optimal_bin_steps" =>
        \A strategy_type \in SwapStrategy, rpc_ok \in BOOLEAN, ok1 \in BOOLEAN, ok2 \in BOOLEAN :
            ReadsAsObserved(rpc_ok, ok1, ok2) =>
                [probes |-> probes, path |-> token_path]
                    \in build_optimal_path(actual_token_from, actual_token_to, strategy_type,
                                           wnative_address, rpc_ok, ok1, ok2, available_bin_steps)

C30_Witness ==
    /\ pc = "get_optimal_bin_steps"
    /\ strategy = CHEAP
    /\ returned_by = "find_intermediary_path"
    /\ token_path = <<TOKEN_A, WNATIVE, TOKEN_B>>
    /\ build_optimal_path(TOKEN_A, TOKEN_B, FAST, WNATIVE, TRUE, TRUE, TRUE, {})
          = {[probes |-> <<>>, path |-> token_path]}
    /\ build_optimal_path(TOKEN_A, TOKEN_B, SECURE, WNATIVE, TRUE, TRUE, TRUE, {})
          = {[probes |-> <<>>, path |-> token_path]}
====
